---- MODULE Spec2Model ----
(***************************************************************************)
(* A model of src/src/ts_type.rs: the conversion of parsed TypeScript type *)
(* expressions into TsTypeDef nodes, the inference of a TsTypeDef from a   *)
(* variable initializer, the Display rendering of TsTypeDef and its serde  *)
(* (JSON) form.                                                            *)
(*                                                                         *)
(* Option<T> is a sequence of length at most one: None is <<>> and Some(x) *)
(* is <<x>>.  A Rust String is a TLA+ string.  A function that may panic   *)
(* returns an Option, None standing for the abort.  f64 and BigInt values  *)
(* are integers.  Styling (crate::colors) is disabled: it adds no text.    *)
(***************************************************************************)
EXTENDS Integers, Sequences, FiniteSets, TLC

VARIABLES pc, src, is_const, def, text, json, back

vars == <<pc, src, is_const, def, text, json, back>>

\* the variant of a syntax node (the tag of the swc enum it is a value of)
Variant(node) == node.tag

None == <<>>

Some(x) == <<x>>

IsSome(o) == o # <<>>

Unwrap(o) == o[1]

\* Option::map
MapOpt(o, F(_)) == IF o = <<>> THEN <<>> ELSE <<F(o[1])>>

\* Iterator::map(..).collect() on a Vec
MapSeq(s, F(_)) == [i \in 1..Len(s) |-> F(s[i])]

RECURSIVE ConcatAll(_)
\* the concatenation of a sequence of strings
ConcatAll(ss) == IF ss = <<>> THEN "" ELSE ss[1] \o ConcatAll(Tail(ss))

RECURSIVE Fmt(_)
\* write!/format! over a sequence of pieces, each the Option<String> a
\* Display call produced: the result is None as soon as a piece panicked
Fmt(parts) ==
  IF parts = <<>> THEN Some("")
  ELSE IF parts[1] = None THEN None
  ELSE LET rest == Fmt(Tail(parts))
       IN  IF rest = None THEN None ELSE Some(parts[1][1] \o rest[1])

\* a piece of text that cannot panic
Ok(s) == <<s>>

\* the backtick that delimits a template literal, written as an apostrophe
\* (a TLA+ string cannot hold a backtick); no other text of the model has one
Backtick == "'"

\* bool::to_string
BoolToString(b) == IF b THEN "true" ELSE "false"

\* f64 / BigInt Display (integer values only)
NumToString(n) == ToString(n)

\* str::to_ascii_lowercase on the callee names the code matches
to_ascii_lowercase(s) ==
  CASE s = "Symbol" -> "symbol"
    [] s = "Number" -> "number"
    [] s = "String" -> "string"
    [] s = "BigInt" -> "bigint"
    [] s = "Date" -> "date"
    [] s = "RegExp" -> "regexp"
    [] OTHER -> s

(***************************************************************************)
(* TsTypeDef and its kinds                                                 *)
(***************************************************************************)

TsTypeDefKind ==
  { "Keyword", "Literal", "TypeRef", "Union", "Intersection", "Array",
    "Tuple", "TypeOperator", "Parenthesized", "Rest", "Optional",
    "TypeQuery", "This", "FnOrConstructor", "Conditional", "Infer",
    "IndexedAccess", "Mapped", "TypeLiteral", "TypePredicate", "ImportType" }

\* the variant-specific fields of TsTypeDef
PayloadFields ==
  { "keyword", "literal", "type_ref", "union", "intersection", "array",
    "tuple", "type_operator", "parenthesized", "rest", "optional",
    "type_query", "this", "fn_or_constructor", "conditional_type", "infer",
    "indexed_access", "mapped_type", "type_literal", "type_predicate",
    "import_type" }

\* the field that carries the payload of a kind
PayloadOf(kind) ==
  CASE kind = "Keyword" -> "keyword"
    [] kind = "Literal" -> "literal"
    [] kind = "TypeRef" -> "type_ref"
    [] kind = "Union" -> "union"
    [] kind = "Intersection" -> "intersection"
    [] kind = "Array" -> "array"
    [] kind = "Tuple" -> "tuple"
    [] kind = "TypeOperator" -> "type_operator"
    [] kind = "Parenthesized" -> "parenthesized"
    [] kind = "Rest" -> "rest"
    [] kind = "Optional" -> "optional"
    [] kind = "TypeQuery" -> "type_query"
    [] kind = "This" -> "this"
    [] kind = "FnOrConstructor" -> "fn_or_constructor"
    [] kind = "Conditional" -> "conditional_type"
    [] kind = "Infer" -> "infer"
    [] kind = "IndexedAccess" -> "indexed_access"
    [] kind = "Mapped" -> "mapped_type"
    [] kind = "TypeLiteral" -> "type_literal"
    [] kind = "TypePredicate" -> "type_predicate"
    [] kind = "ImportType" -> "import_type"

\* TsTypeDef::default(): empty repr, no kind, no payload
Default ==
  [ repr |-> "", kind |-> None, keyword |-> None, literal |-> None,
    type_ref |-> None, union |-> None, intersection |-> None, array |-> None,
    tuple |-> None, type_operator |-> None, parenthesized |-> None,
    rest |-> None, optional |-> None, type_query |-> None, this |-> None,
    fn_or_constructor |-> None, conditional_type |-> None, infer |-> None,
    indexed_access |-> None, mapped_type |-> None, type_literal |-> None,
    type_predicate |-> None, import_type |-> None ]

LiteralDef(kind, number, string, ts_types, boolean) ==
  [ kind |-> kind, number |-> number, string |-> string,
    ts_types |-> ts_types, boolean |-> boolean ]

\* TsTypeDef::literal
literal(repr, lit) ==
  [Default EXCEPT !.repr = repr, !.kind = Some("Literal"), !.literal = Some(lit)]

\* TsTypeDef::keyword_with_repr
keyword_with_repr(keyword_str, repr) ==
  [Default EXCEPT !.repr = repr, !.kind = Some("Keyword"),
                  !.keyword = Some(keyword_str)]

\* TsTypeDef::keyword
keyword(keyword_str) == keyword_with_repr(keyword_str, keyword_str)

number_with_repr(repr) == keyword_with_repr("number", repr)

string_with_repr(repr) == keyword_with_repr("string", repr)

bool_with_repr(repr) == keyword_with_repr("boolean", repr)

\* a big integer widened to number
bigint_with_repr_AsNumber(repr) == keyword_with_repr("number", repr)

bigint_with_repr(repr) == keyword_with_repr("bigint", repr)

\* TsTypeDef::regexp
regexp(repr) ==
  [Default EXCEPT !.repr = repr, !.kind = Some("TypeRef"),
                  !.type_ref = Some([type_params |-> None, type_name |-> "RegExp"])]

\* TsTypeDef::number_literal
number_literal(num) ==
  literal(NumToString(num.value),
          LiteralDef("Number", Some(num.value), None, None, None))

\* TsTypeDef::string_literal
string_literal(str_) ==
  literal(str_.value, LiteralDef("String", None, Some(str_.value), None, None))

\* TsTypeDef::bool_literal
bool_literal(bool_) ==
  literal(BoolToString(bool_.value),
          LiteralDef("Boolean", None, None, None, Some(bool_.value)))

\* TsTypeDef::bigint_literal
bigint_literal(bigint_) ==
  literal(NumToString(bigint_.value),
          LiteralDef("BigInt", None, Some(NumToString(bigint_.value)), None, None))

(***************************************************************************)
(* Display                                                                 *)
(***************************************************************************)

\* crate::display::SliceDisplayer over already rendered items: the items
\* joined by the separator, which also follows the last one when trailing
SliceDisplayer(items, sep, trailing) ==
  IF items = <<>> THEN Ok("")
  ELSE Fmt([i \in 1..(2 * Len(items) - 1) |->
              IF i % 2 = 1 THEN items[(i + 1) \div 2] ELSE Ok(sep)]
           \o (IF trailing THEN <<Ok(sep)>> ELSE <<>>))

\* crate::display::display_computed
display_computed(computed, name) == IF computed THEN "[" \o name \o "]" ELSE name

\* crate::display::display_optional
display_optional(optional) == IF optional THEN "?" ELSE ""

\* crate::display::display_readonly
display_readonly(readonly) == IF readonly THEN "readonly " ELSE ""

\* Display for ParamDef (crate::params): an identifier parameter
DisplayParamDef(p) == Ok(p.name)

DisplayParams(params) == SliceDisplayer(MapSeq(params, DisplayParamDef), ", ", FALSE)

RECURSIVE Display(_)

\* ": {}" of an optional type, nothing when it is absent
DisplayTypeSuffix(maybe_type) ==
  IF maybe_type = None THEN Ok("") ELSE Fmt(<<Ok(": "), Display(maybe_type[1])>>)

\* Display for TsTypeParamDef (crate::ts_type_param)
DisplayTypeParamDef(tp) ==
  Fmt(<< Ok(tp.name),
         IF tp.constraint = None THEN Ok("")
         ELSE Fmt(<<Ok(" extends "), Display(tp.constraint[1])>>),
         IF tp.default = None THEN Ok("")
         ELSE Fmt(<<Ok(" = "), Display(tp.default[1])>>) >>)

\* Display for LiteralMethodDef
DisplayLiteralMethodDef(m) ==
  Fmt(<< Ok(display_computed(m.computed, m.name)),
         Ok(display_optional(m.optional)),
         Ok("("), DisplayParams(m.params), Ok(")"),
         DisplayTypeSuffix(m.return_type) >>)

\* Display for LiteralPropertyDef
DisplayLiteralPropertyDef(p) == Fmt(<<Ok(p.name), DisplayTypeSuffix(p.ts_type)>>)

\* Display for LiteralCallSignatureDef
DisplayLiteralCallSignatureDef(c) ==
  Fmt(<<Ok("("), DisplayParams(c.params), Ok(")"), DisplayTypeSuffix(c.ts_type)>>)

\* Display for LiteralIndexSignatureDef
DisplayLiteralIndexSignatureDef(i) ==
  Fmt(<< Ok(display_readonly(i.readonly)), Ok("["), DisplayParams(i.params),
         Ok("]"), DisplayTypeSuffix(i.ts_type) >>)

\* Display for TsTypePredicateDef: the words joined by one space
DisplayTsTypePredicateDef(pred) ==
  LET s == (IF pred.asserts THEN <<Ok("asserts")>> ELSE <<>>)
           \o << IF pred.param.type = "this" THEN Ok("this")
                 ELSE Ok(pred.param.name) >>
           \o (IF pred.type = None THEN <<>>
               ELSE <<Ok("is"), Display(pred.type[1])>>)
  IN  SliceDisplayer(s, " ", FALSE)

\* one segment of a template literal: a string literal node is written raw,
\* anything else inside ${ }
DisplayTemplateSegment(ts_type) ==
  IF ts_type.kind = None THEN None
  ELSE IF ts_type.kind[1] = "Literal"
    THEN IF ts_type.literal = None THEN None
         ELSE IF ts_type.literal[1].kind = "String"
           THEN IF ts_type.literal[1].string = None THEN None
                ELSE Ok(ts_type.literal[1].string[1])
           ELSE Fmt(<<Ok("${"), Display(ts_type), Ok("}")>>)
    ELSE Fmt(<<Ok("${"), Display(ts_type), Ok("}")>>)

\* the TsTypeDefKind::Literal arm
DisplayLiteral(lit) ==
  CASE lit.kind = "Boolean" ->
         IF lit.boolean = None THEN None ELSE Ok(BoolToString(lit.boolean[1]))
    [] lit.kind = "String" ->
         IF lit.string = None THEN None
         ELSE Ok("\"" \o lit.string[1] \o "\"")
    [] lit.kind = "Template" ->
         IF lit.ts_types = None THEN None
         ELSE Fmt(<<Ok(Backtick)>> \o MapSeq(lit.ts_types[1], DisplayTemplateSegment)
                  \o <<Ok(Backtick)>>)
    [] lit.kind = "Number" ->
         IF lit.number = None THEN None ELSE Ok(NumToString(lit.number[1]))
    [] lit.kind = "BigInt" ->
         IF lit.string = None THEN None ELSE Ok(lit.string[1])

\* an Array arm that parenthesizes a union but not an intersection
DisplayArray_UnionOnly(self) ==
  IF self.array = None THEN None
  ELSE LET array == self.array[1]
       IN  IF array.kind = Some("Union")
           THEN Fmt(<<Ok("("), Display(array), Ok(")[]")>>)
           ELSE Fmt(<<Display(array), Ok("[]")>>)

\* the TsTypeDefKind::Array arm
DisplayArray(self) ==
  IF self.array = None THEN None
  ELSE LET array == self.array[1]
       IN  IF array.kind = Some("Union") \/ array.kind = Some("Intersection")
           THEN Fmt(<<Ok("("), Display(array), Ok(")[]")>>)
           ELSE Fmt(<<Display(array), Ok("[]")>>)

\* the TsTypeDefKind::Mapped arm
DisplayMapped(mapped_type) ==
  LET readonly ==
        CASE mapped_type.readonly = Some("True") -> "readonly "
          [] mapped_type.readonly = Some("Plus") -> "+readonly "
          [] mapped_type.readonly = Some("Minus") -> "-readonly "
          [] OTHER -> ""
      optional ==
        CASE mapped_type.optional = Some("True") -> "?"
          [] mapped_type.optional = Some("Plus") -> "+?"
          [] mapped_type.optional = Some("Minus") -> "-?"
          [] OTHER -> ""
      type_param ==
        IF mapped_type.type_param.constraint # None
        THEN Fmt(<< Ok(mapped_type.type_param.name), Ok(" in "),
                    Display(mapped_type.type_param.constraint[1]) >>)
        ELSE DisplayTypeParamDef(mapped_type.type_param)
      name_type ==
        IF mapped_type.name_type # None
        THEN Fmt(<<Ok(" as "), Display(mapped_type.name_type[1])>>)
        ELSE Ok("")
  IN  Fmt(<< Ok(readonly), Ok("["), type_param, name_type, Ok("]"),
             Ok(optional), DisplayTypeSuffix(mapped_type.ts_type) >>)

\* <..> of an optional list of type arguments
DisplayTypeArgs(type_params) ==
  IF type_params = None THEN Ok("")
  ELSE Fmt(<< Ok("<"), SliceDisplayer(MapSeq(type_params[1], Display), ", ", FALSE),
              Ok(">") >>)

\* impl Display for TsTypeDef; None is the panic of an unwrap() on a
\* payload that is absent
Display(self) ==
  IF self.kind = None THEN Ok("[UNSUPPORTED]")
  ELSE
    LET kind == self.kind[1] IN
    CASE kind = "Array" -> DisplayArray(self)
      [] kind = "Conditional" ->
           IF self.conditional_type = None THEN None
           ELSE LET conditional == self.conditional_type[1]
                IN  Fmt(<< Display(conditional.check_type), Ok(" extends "),
                           Display(conditional.extends_type), Ok(" ? "),
                           Display(conditional.true_type), Ok(" : "),
                           Display(conditional.false_type) >>)
      [] kind = "Infer" ->
           IF self.infer = None THEN None
           ELSE Fmt(<<Ok("infer "), DisplayTypeParamDef(self.infer[1].type_param)>>)
      [] kind = "ImportType" ->
           IF self.import_type = None THEN None
           ELSE LET import_type == self.import_type[1]
                IN  Fmt(<< Ok("import(\"" \o import_type.specifier \o "\")"),
                           IF import_type.qualifier = None THEN Ok("")
                           ELSE Ok("." \o import_type.qualifier[1]),
                           DisplayTypeArgs(import_type.type_params) >>)
      [] kind = "FnOrConstructor" ->
           IF self.fn_or_constructor = None THEN None
           ELSE LET fn_or_constructor == self.fn_or_constructor[1]
                IN  Fmt(<< Ok(IF fn_or_constructor.constructor THEN "new " ELSE ""),
                           Ok("("), DisplayParams(fn_or_constructor.params),
                           Ok(") => "), Display(fn_or_constructor.ts_type) >>)
      [] kind = "IndexedAccess" ->
           IF self.indexed_access = None THEN None
           ELSE LET indexed_access == self.indexed_access[1]
                IN  Fmt(<< Display(indexed_access.obj_type), Ok("["),
                           Display(indexed_access.index_type), Ok("]") >>)
      [] kind = "Intersection" ->
           IF self.intersection = None THEN None
           ELSE SliceDisplayer(MapSeq(self.intersection[1], Display), " & ", FALSE)
      [] kind = "Mapped" ->
           IF self.mapped_type = None THEN None
           ELSE DisplayMapped(self.mapped_type[1])
      [] kind = "Keyword" ->
           IF self.keyword = None THEN None ELSE Ok(self.keyword[1])
      [] kind = "Literal" ->
           IF self.literal = None THEN None ELSE DisplayLiteral(self.literal[1])
      [] kind = "Optional" ->
           IF self.optional = None THEN None
           ELSE Fmt(<<Display(self.optional[1]), Ok("?")>>)
      [] kind = "Parenthesized" ->
           IF self.parenthesized = None THEN None
           ELSE Fmt(<<Ok("("), Display(self.parenthesized[1]), Ok(")")>>)
      [] kind = "Rest" ->
           IF self.rest = None THEN None
           ELSE Fmt(<<Ok("..."), Display(self.rest[1])>>)
      [] kind = "This" -> Ok("this")
      [] kind = "Tuple" ->
           IF self.tuple = None THEN None
           ELSE Fmt(<< Ok("["),
                       SliceDisplayer(MapSeq(self.tuple[1], Display), ", ", FALSE),
                       Ok("]") >>)
      [] kind = "TypeLiteral" ->
           IF self.type_literal = None THEN None
           ELSE LET type_literal == self.type_literal[1]
                IN  Fmt(<< Ok("{ "),
                           SliceDisplayer(MapSeq(type_literal.call_signatures,
                                                 DisplayLiteralCallSignatureDef),
                                          "; ", TRUE),
                           SliceDisplayer(MapSeq(type_literal.methods,
                                                 DisplayLiteralMethodDef),
                                          "; ", TRUE),
                           SliceDisplayer(MapSeq(type_literal.properties,
                                                 DisplayLiteralPropertyDef),
                                          "; ", TRUE),
                           SliceDisplayer(MapSeq(type_literal.index_signatures,
                                                 DisplayLiteralIndexSignatureDef),
                                          "; ", TRUE),
                           Ok("}") >>)
      [] kind = "TypeOperator" ->
           IF self.type_operator = None THEN None
           ELSE LET operator == self.type_operator[1]
                IN  Fmt(<<Ok(operator.operator), Ok(" "), Display(operator.ts_type)>>)
      [] kind = "TypeQuery" ->
           IF self.type_query = None THEN None
           ELSE Ok("typeof " \o self.type_query[1])
      [] kind = "TypeRef" ->
           IF self.type_ref = None THEN None
           ELSE LET type_ref == self.type_ref[1]
                IN  Fmt(<<Ok(type_ref.type_name), DisplayTypeArgs(type_ref.type_params)>>)
      [] kind = "Union" ->
           IF self.union = None THEN None
           ELSE SliceDisplayer(MapSeq(self.union[1], Display), " | ", FALSE)
      [] kind = "TypePredicate" ->
           IF self.type_predicate = None THEN None
           ELSE DisplayTsTypePredicateDef(self.type_predicate[1])

\* ToString::to_string / format!("{}", ..): the text, or the abort
to_string(node) == Display(node)

(***************************************************************************)
(* Conversion of the syntax tree.  A syntax node is a record with a tag    *)
(* (the variant of the swc enum) and a span <<lo, hi>>.  Every conversion  *)
(* returns Some(node), or None when it panicked.                           *)
(***************************************************************************)

\* crate::interface::expr_to_name on an identifier key
expr_to_name(expr) == expr.sym

\* crate::params::ts_fn_param_to_param_def(None, param), identifier pattern
ts_fn_param_to_param_def(param) == [kind |-> "identifier", name |-> param.name]

\* crate::params::pat_to_param_def(None, pat), identifier pattern
pat_to_param_def(pat) == [kind |-> "identifier", name |-> pat.name]

\* what follows a call that may have panicked: nothing when it did
Try(o, F(_)) == IF o = None THEN None ELSE F(o[1])

\* the results of several such calls, None if one of them panicked
AllOk(os) ==
  IF \E i \in 1..Len(os) : os[i] = None THEN None
  ELSE Some([i \in 1..Len(os) |-> os[i][1]])

\* the value wrapped as the Some of an Option that was computed
SomeOf(x) == Some(Some(x))

RECURSIVE MatchTsType(_, _)

\* impl From<&TsType> for TsTypeDef: its match is From_TsType_match
From_TsType(other) == MatchTsType("From", other)

\* ts_type_ann_to_def: its match, on the type the annotation wraps, is
\* ts_type_ann_to_def_match
ts_type_ann_to_def(type_ann) == MatchTsType("ts_type_ann_to_def", type_ann.type_ann)

\* the conversions of a Vec<Box<TsType>>: None if one panicked
ConvertAll(types) == AllOk([i \in 1..Len(types) |-> From_TsType(types[i])])

\* Option<Box<TsType>>::map(into): Some(the optional node), None on a panic
ConvertOpt(maybe_type) ==
  IF maybe_type = None THEN Some(None)
  ELSE Try(From_TsType(maybe_type[1]), SomeOf)

\* Option<TsTypeAnn>::map(|rt| (&*rt.type_ann).into())
ConvertOptAnn(maybe_ann) ==
  IF maybe_ann = None THEN Some(None)
  ELSE Try(From_TsType(maybe_ann[1].type_ann), SomeOf)

\* type arguments that come out as an empty list when none was supplied
ConvertTypeArgs_EmptyForAbsent(maybe_inst) ==
  IF maybe_inst = None THEN Some(Some(<<>>))
  ELSE Try(ConvertAll(maybe_inst[1].params), SomeOf)

\* the type arguments of an optional TsTypeParamInstantiation
ConvertTypeArgs(maybe_inst) ==
  IF maybe_inst = None THEN Some(None)
  ELSE Try(ConvertAll(maybe_inst[1].params), SomeOf)

\* From<&TsTypeParam> for TsTypeParamDef (crate::ts_type_param)
From_TsTypeParam(param) ==
  Try(AllOk(<<ConvertOpt(param.constraint), ConvertOpt(param.default)>>),
      LAMBDA d : Some([name |-> param.name, constraint |-> d[1], default |-> d[2]]))

\* crate::ts_type_param::maybe_type_param_decl_to_type_param_defs
maybe_type_param_decl_to_type_param_defs(maybe_decl) ==
  IF maybe_decl = None THEN Some(<<>>)
  ELSE AllOk([i \in 1..Len(maybe_decl[1].params) |->
                From_TsTypeParam(maybe_decl[1].params[i])])

\* the comparison of two spans: lo, then hi (derive(Ord) on Span)
SpanLess(a, b) == a[1] < b[1] \/ (a[1] = b[1] /\ a[2] < b[2])

RECURSIVE get_span_from_type(_)
get_span_from_type(ts_type) ==
  CASE ts_type.tag = "TsArrayType" -> get_span_from_type(ts_type.elem_type)
    [] ts_type.tag = "TsConditionalType" -> get_span_from_type(ts_type.check_type)
    [] ts_type.tag = "TsIndexedAccessType" -> get_span_from_type(ts_type.index_type)
    [] OTHER -> ts_type.span

\* the entries with one more put after those that do not compare greater
InsertBySpan(sorted, last) ==
  LET k == Cardinality({i \in 1..Len(sorted) : ~SpanLess(last.span, sorted[i].span)})
  IN  SubSeq(sorted, 1, k) \o <<last>> \o SubSeq(sorted, k + 1, Len(sorted))

RECURSIVE SortBySpan(_)
\* slice::sort_by on the span of each entry: a stable insertion sort
SortBySpan(entries) ==
  IF entries = <<>> THEN <<>>
  ELSE InsertBySpan(SortBySpan(SubSeq(entries, 1, Len(entries) - 1)),
                    entries[Len(entries)])

\* the entry of tpl_literal for an interpolated type and its node
TplTypeEntry(ts_type, node) ==
  Try(Display(node),
      LAMBDA repr : Some([ span |-> get_span_from_type(ts_type), node |-> node,
                           repr |-> "${" \o repr \o "}" ]))

\* the entry of tpl_literal for a quasi
TplQuasiEntry(quasi) ==
  [ span |-> quasi.span,
    node |-> literal(quasi.raw, LiteralDef("String", None, Some(quasi.raw), None, None)),
    repr |-> quasi.raw ]

\* the template literal node over the sorted entries
TplNode(ts_types) ==
  Some(literal(ConcatAll([i \in 1..Len(ts_types) |-> ts_types[i].repr]),
               LiteralDef("Template", None, None,
                          Some([i \in 1..Len(ts_types) |-> ts_types[i].node]),
                          None)))

\* tpl_literal without the sort of its entries
tpl_literal_Unsorted(types, quasis) ==
  Try(AllOk([i \in 1..Len(types) |->
               Try(From_TsType(types[i]),
                   LAMBDA node : TplTypeEntry(types[i], node))]),
      LAMBDA from_types : TplNode(from_types \o MapSeq(quasis, TplQuasiEntry)))

\* TsTypeDef::tpl_literal
tpl_literal(types, quasis) ==
  Try(AllOk([i \in 1..Len(types) |->
               Try(From_TsType(types[i]),
                   LAMBDA node : TplTypeEntry(types[i], node))]),
      LAMBDA from_types :
        TplNode(SortBySpan(from_types \o MapSeq(quasis, TplQuasiEntry))))

\* impl From<&TsLitType> for TsTypeDef
From_TsLitType(other) ==
  CASE other.lit.tag = "Number" -> Some(number_literal(other.lit))
    [] other.lit.tag = "Str" -> Some(string_literal(other.lit))
    [] other.lit.tag = "Tpl" -> tpl_literal(other.lit.types, other.lit.quasis)
    [] other.lit.tag = "Bool" -> Some(bool_literal(other.lit))
    [] other.lit.tag = "BigInt" -> Some(bigint_literal(other.lit))

\* impl From<&TsArrayType> for TsTypeDef
From_TsArrayType(other) ==
  Try(From_TsType(other.elem_type),
      LAMBDA ts_type_def :
        Some([Default EXCEPT !.array = Some(ts_type_def), !.kind = Some("Array")]))

\* impl From<&TsTupleType> for TsTypeDef
From_TsTupleType(other) ==
  Try(ConvertAll([i \in 1..Len(other.elem_types) |-> other.elem_types[i].ty]),
      LAMBDA type_defs :
        Some([Default EXCEPT !.tuple = Some(type_defs), !.kind = Some("Tuple")]))

RECURSIVE Dedup(_)
\* the sequence without the later copies of an element
Dedup(s) ==
  IF s = <<>> THEN <<>>
  ELSE IF \E i \in 1..(Len(s) - 1) : s[i] = s[Len(s)]
    THEN Dedup(SubSeq(s, 1, Len(s) - 1))
    ELSE Append(Dedup(SubSeq(s, 1, Len(s) - 1)), s[Len(s)])

\* a conversion that keeps one copy of each member
From_TsUnionOrIntersectionType_Dedup(other) ==
  Try(ConvertAll(other.types),
      LAMBDA types :
        IF other.variant = "TsUnionType"
        THEN Some([Default EXCEPT !.union = Some(Dedup(types)),
                                  !.kind = Some("Union")])
        ELSE Some([Default EXCEPT !.intersection = Some(Dedup(types)),
                                  !.kind = Some("Intersection")]))

\* impl From<&TsUnionOrIntersectionType> for TsTypeDef
From_TsUnionOrIntersectionType(other) ==
  Try(ConvertAll(other.types),
      LAMBDA types :
        IF other.variant = "TsUnionType"
        THEN Some([Default EXCEPT !.union = Some(types), !.kind = Some("Union")])
        ELSE Some([Default EXCEPT !.intersection = Some(types),
                                  !.kind = Some("Intersection")]))

\* impl From<&TsKeywordType> for TsTypeDef
From_TsKeywordType(other) ==
  LET keyword_str ==
        CASE other.kind = "TsAnyKeyword" -> "any"
          [] other.kind = "TsUnknownKeyword" -> "unknown"
          [] other.kind = "TsNumberKeyword" -> "number"
          [] other.kind = "TsObjectKeyword" -> "object"
          [] other.kind = "TsBooleanKeyword" -> "boolean"
          [] other.kind = "TsBigIntKeyword" -> "bigint"
          [] other.kind = "TsStringKeyword" -> "string"
          [] other.kind = "TsSymbolKeyword" -> "symbol"
          [] other.kind = "TsVoidKeyword" -> "void"
          [] other.kind = "TsUndefinedKeyword" -> "undefined"
          [] other.kind = "TsNullKeyword" -> "null"
          [] other.kind = "TsNeverKeyword" -> "never"
          [] other.kind = "TsIntrinsicKeyword" -> "intrinsic"
  IN  Some(keyword(keyword_str))

\* impl From<&TsTypeOperator> for TsTypeDef
From_TsTypeOperator(other) ==
  Try(From_TsType(other.type_ann),
      LAMBDA ts_type :
        Some([Default EXCEPT
                !.type_operator = Some([operator |-> other.op, ts_type |-> ts_type]),
                !.kind = Some("TypeOperator")]))

\* impl From<&TsParenthesizedType> for TsTypeDef
From_TsParenthesizedType(other) ==
  Try(From_TsType(other.type_ann),
      LAMBDA ts_type :
        Some([Default EXCEPT !.parenthesized = Some(ts_type),
                             !.kind = Some("Parenthesized")]))

\* impl From<&TsRestType> for TsTypeDef
From_TsRestType(other) ==
  Try(From_TsType(other.type_ann),
      LAMBDA ts_type :
        Some([Default EXCEPT !.rest = Some(ts_type), !.kind = Some("Rest")]))

\* impl From<&TsOptionalType> for TsTypeDef
From_TsOptionalType(other) ==
  Try(From_TsType(other.type_ann),
      LAMBDA ts_type :
        Some([Default EXCEPT !.optional = Some(ts_type), !.kind = Some("Optional")]))

\* a conversion of this as if it were a keyword
From_TsThisType_AsKeyword(other) == Some(keyword("this"))

\* impl From<&TsThisType> for TsTypeDef
From_TsThisType(other) ==
  Some([Default EXCEPT !.repr = "this", !.this = Some(TRUE), !.kind = Some("This")])

\* impl From<&TsThisTypeOrIdent> for ThisOrIdent
From_TsThisTypeOrIdent(other) ==
  IF other.tag = "TsThisType" THEN [type |-> "this"]
  ELSE [type |-> "identifier", name |-> other.sym]

\* the node of a type predicate, whose repr is its rendering
TypePredicateNode(pred) ==
  Try(DisplayTsTypePredicateDef(pred),
      LAMBDA repr : Some([Default EXCEPT !.repr = repr,
                                         !.kind = Some("TypePredicate"),
                                         !.type_predicate = Some(pred)]))

\* impl From<&TsTypePredicate> for TsTypeDef
From_TsTypePredicate(other) ==
  Try(IF other.type_ann = None THEN Some(None)
      ELSE Try(ts_type_ann_to_def(other.type_ann[1]), SomeOf),
      LAMBDA type :
        TypePredicateNode([ asserts |-> other.asserts,
                            param |-> From_TsThisTypeOrIdent(other.param_name),
                            type |-> type ]))

\* ts_member_name_to_name
ts_member_name_to_name(member_name) ==
  IF member_name.tag = "Ident" THEN member_name.sym ELSE member_name.id.sym

RECURSIVE ts_entity_name_to_name(_)
ts_entity_name_to_name(entity_name) ==
  IF entity_name.tag = "Ident" THEN entity_name.sym
  ELSE ts_entity_name_to_name(entity_name.left) \o "."
       \o ts_member_name_to_name(entity_name.right)

\* impl From<&TsTypeQuery> for TsTypeDef
From_TsTypeQuery(other) ==
  LET type_name ==
        IF other.expr_name.tag = "Import" THEN other.expr_name.arg.value
        ELSE ts_entity_name_to_name(other.expr_name)
  IN  Some([Default EXCEPT !.repr = type_name, !.type_query = Some(type_name),
                           !.kind = Some("TypeQuery")])

\* impl From<&TsTypeRef> for TsTypeDef
From_TsTypeRef(other) ==
  Try(ConvertTypeArgs(other.type_params),
      LAMBDA type_params :
        Some([Default EXCEPT
                !.repr = ts_entity_name_to_name(other.type_name),
                !.type_ref =
                   Some([type_params |-> type_params,
                         type_name |-> ts_entity_name_to_name(other.type_name)]),
                !.kind = Some("TypeRef")]))

\* impl From<&TsExprWithTypeArgs> for TsTypeDef
From_TsExprWithTypeArgs(other) ==
  Try(ConvertTypeArgs(other.type_args),
      LAMBDA type_params :
        Some([Default EXCEPT
                !.repr = expr_to_name(other.expr),
                !.type_ref = Some([type_params |-> type_params,
                                   type_name |-> expr_to_name(other.expr)]),
                !.kind = Some("TypeRef")]))

\* impl From<&TsIndexedAccessType> for TsTypeDef
From_TsIndexedAccessType(other) ==
  Try(AllOk(<<From_TsType(other.obj_type), From_TsType(other.index_type)>>),
      LAMBDA d :
        Some([Default EXCEPT
                !.indexed_access = Some([readonly |-> other.readonly,
                                         obj_type |-> d[1],
                                         index_type |-> d[2]]),
                !.kind = Some("IndexedAccess")]))

\* impl From<&TsMappedType> for TsTypeDef
From_TsMappedType(other) ==
  Try(AllOk(<< From_TsTypeParam(other.type_param), ConvertOpt(other.name_type),
               ConvertOpt(other.type_ann) >>),
      LAMBDA d :
        Some([Default EXCEPT
                !.mapped_type = Some([readonly |-> other.readonly,
                                      type_param |-> d[1],
                                      name_type |-> d[2],
                                      optional |-> other.optional,
                                      ts_type |-> d[3]]),
                !.kind = Some("Mapped")]))

\* the parameters of a signature, each through ts_fn_param_to_param_def
ConvertParams(params) == MapSeq(params, ts_fn_param_to_param_def)

\* a getter recorded as a plain method
GetterMethodDef_AsMethod(ts_getter_sig, maybe_return_type) ==
  [ name |-> expr_to_name(ts_getter_sig.key),
    kind |-> "Method",
    params |-> <<>>,
    computed |-> ts_getter_sig.computed,
    optional |-> ts_getter_sig.optional,
    return_type |-> maybe_return_type,
    type_params |-> <<>> ]

\* the LiteralMethodDef of a getter signature
GetterMethodDef(ts_getter_sig, maybe_return_type) ==
  [ name |-> expr_to_name(ts_getter_sig.key),
    kind |-> "Getter",
    params |-> <<>>,
    computed |-> ts_getter_sig.computed,
    optional |-> ts_getter_sig.optional,
    return_type |-> maybe_return_type,
    type_params |-> <<>> ]

\* the LiteralMethodDef of a setter signature
SetterMethodDef(ts_setter_sig) ==
  [ name |-> expr_to_name(ts_setter_sig.key),
    kind |-> "Setter",
    params |-> <<ts_fn_param_to_param_def(ts_setter_sig.param)>>,
    computed |-> ts_setter_sig.computed,
    optional |-> ts_setter_sig.optional,
    return_type |-> None,
    type_params |-> <<>> ]

\* the LiteralMethodDef of a construct signature
ConstructMethodDef(ts_construct_sig, maybe_return_type, type_params) ==
  [ name |-> "new",
    kind |-> "Method",
    computed |-> FALSE,
    optional |-> FALSE,
    params |-> ConvertParams(ts_construct_sig.params),
    return_type |-> maybe_return_type,
    type_params |-> type_params ]

\* one iteration of the loop over the members of a type literal: the four
\* vectors after the member was pushed, or None when its conversion panicked;
\* d is the pair of the converted annotation and the type parameters
PushTypeElement(acc, type_element) ==
  CASE type_element.tag = "TsMethodSignature" ->
         Try(AllOk(<< ConvertOptAnn(type_element.type_ann),
                      maybe_type_param_decl_to_type_param_defs(
                        type_element.type_params) >>),
             LAMBDA d :
               Some([acc EXCEPT !.methods = Append(@,
                  [ name |-> expr_to_name(type_element.key),
                    kind |-> "Method",
                    params |-> ConvertParams(type_element.params),
                    computed |-> type_element.computed,
                    optional |-> type_element.optional,
                    return_type |-> d[1],
                    type_params |-> d[2] ])]))
    [] type_element.tag = "TsGetterSignature" ->
         Try(ConvertOptAnn(type_element.type_ann),
             LAMBDA maybe_return_type :
               Some([acc EXCEPT !.methods =
                  Append(@, GetterMethodDef(type_element, maybe_return_type))]))
    [] type_element.tag = "TsSetterSignature" ->
         Some([acc EXCEPT !.methods = Append(@, SetterMethodDef(type_element))])
    [] type_element.tag = "TsPropertySignature" ->
         Try(AllOk(<< ConvertOptAnn(type_element.type_ann),
                      maybe_type_param_decl_to_type_param_defs(
                        type_element.type_params) >>),
             LAMBDA d :
               Some([acc EXCEPT !.properties = Append(@,
                  [ name |-> expr_to_name(type_element.key),
                    params |-> ConvertParams(type_element.params),
                    ts_type |-> d[1],
                    readonly |-> type_element.readonly,
                    computed |-> type_element.computed,
                    optional |-> type_element.optional,
                    type_params |-> d[2] ])]))
    [] type_element.tag = "TsCallSignatureDecl" ->
         Try(AllOk(<< ConvertOptAnn(type_element.type_ann),
                      maybe_type_param_decl_to_type_param_defs(
                        type_element.type_params) >>),
             LAMBDA d :
               Some([acc EXCEPT !.call_signatures = Append(@,
                  [ params |-> ConvertParams(type_element.params),
                    ts_type |-> d[1],
                    type_params |-> d[2] ])]))
    [] type_element.tag = "TsIndexSignature" ->
         Try(ConvertOptAnn(type_element.type_ann),
             LAMBDA ts_type :
               Some([acc EXCEPT !.index_signatures = Append(@,
                  [ readonly |-> type_element.readonly,
                    params |-> ConvertParams(type_element.params),
                    ts_type |-> ts_type ])]))
    [] type_element.tag = "TsConstructSignatureDecl" ->
         Try(AllOk(<< ConvertOptAnn(type_element.type_ann),
                      maybe_type_param_decl_to_type_param_defs(
                        type_element.type_params) >>),
             LAMBDA d :
               Some([acc EXCEPT !.methods =
                  Append(@, ConstructMethodDef(type_element, d[1], d[2]))]))

RECURSIVE TypeLitLoop(_, _)
\* the loop of From<&TsTypeLit> over the members still to visit
TypeLitLoop(acc, members) ==
  IF members = <<>> THEN Some(acc)
  ELSE Try(PushTypeElement(acc, members[1]),
           LAMBDA next : TypeLitLoop(next, Tail(members)))

\* impl From<&TsTypeLit> for TsTypeDef
From_TsTypeLit(other) ==
  Try(TypeLitLoop([ methods |-> <<>>, properties |-> <<>>,
                    call_signatures |-> <<>>, index_signatures |-> <<>> ],
                  other.members),
      LAMBDA type_literal :
        Some([Default EXCEPT !.kind = Some("TypeLiteral"),
                             !.type_literal = Some(type_literal)]))

\* impl From<&TsConditionalType> for TsTypeDef
From_TsConditionalType(other) ==
  Try(AllOk(<< From_TsType(other.check_type), From_TsType(other.extends_type),
               From_TsType(other.true_type), From_TsType(other.false_type) >>),
      LAMBDA d :
        Some([Default EXCEPT
                !.kind = Some("Conditional"),
                !.conditional_type = Some([ check_type |-> d[1],
                                            extends_type |-> d[2],
                                            true_type |-> d[3],
                                            false_type |-> d[4] ])]))

\* impl From<&TsInferType> for TsTypeDef
From_TsInferType(other) ==
  Try(From_TsTypeParam(other.type_param),
      LAMBDA type_param :
        Some([Default EXCEPT !.kind = Some("Infer"),
                             !.infer = Some([type_param |-> type_param])]))

\* impl From<&TsImportType> for TsTypeDef
From_TsImportType(other) ==
  Try(ConvertTypeArgs(other.type_args),
      LAMBDA type_params :
        Some([Default EXCEPT
                !.kind = Some("ImportType"),
                !.import_type =
                   Some([ specifier |-> other.arg.value,
                          qualifier |-> MapOpt(other.qualifier,
                                               ts_entity_name_to_name),
                          type_params |-> type_params ])]))

\* impl From<&TsFnOrConstructorType> for TsTypeDef
From_TsFnOrConstructorType(other) ==
  Try(AllOk(<< maybe_type_param_decl_to_type_param_defs(other.type_params),
               ts_type_ann_to_def(other.type_ann) >>),
      LAMBDA d :
        Some([Default EXCEPT
                !.kind = Some("FnOrConstructor"),
                !.fn_or_constructor =
                   Some([ constructor |-> other.variant = "TsConstructorType",
                          ts_type |-> d[2],
                          params |-> ConvertParams(other.params),
                          type_params |-> d[1] ])]))

\* the match of impl From<&TsType> for TsTypeDef: one arm for each variant
From_TsType_match(other) ==
  CASE other.tag = "TsKeywordType" -> From_TsKeywordType(other)
    [] other.tag = "TsThisType" -> From_TsThisType(other)
    [] other.tag = "TsFnOrConstructorType" -> From_TsFnOrConstructorType(other)
    [] other.tag = "TsTypeRef" -> From_TsTypeRef(other)
    [] other.tag = "TsTypeQuery" -> From_TsTypeQuery(other)
    [] other.tag = "TsTypeLit" -> From_TsTypeLit(other)
    [] other.tag = "TsArrayType" -> From_TsArrayType(other)
    [] other.tag = "TsTupleType" -> From_TsTupleType(other)
    [] other.tag = "TsOptionalType" -> From_TsOptionalType(other)
    [] other.tag = "TsRestType" -> From_TsRestType(other)
    [] other.tag = "TsUnionOrIntersectionType" -> From_TsUnionOrIntersectionType(other)
    [] other.tag = "TsConditionalType" -> From_TsConditionalType(other)
    [] other.tag = "TsInferType" -> From_TsInferType(other)
    [] other.tag = "TsParenthesizedType" -> From_TsParenthesizedType(other)
    [] other.tag = "TsTypeOperator" -> From_TsTypeOperator(other)
    [] other.tag = "TsIndexedAccessType" -> From_TsIndexedAccessType(other)
    [] other.tag = "TsMappedType" -> From_TsMappedType(other)
    [] other.tag = "TsLitType" -> From_TsLitType(other)
    [] other.tag = "TsTypePredicate" -> From_TsTypePredicate(other)
    [] other.tag = "TsImportType" -> From_TsImportType(other)

\* a match that looks through the parentheses of a parenthesized type
ts_type_ann_to_def_match_Unwrap(t) ==
  IF t.tag = "TsParenthesizedType" THEN From_TsType_match(t.type_ann)
  ELSE From_TsType_match(t)

\* the match of ts_type_ann_to_def, arm by arm as the source spells it
ts_type_ann_to_def_match(t) ==
  CASE t.tag = "TsKeywordType" -> From_TsKeywordType(t)
    [] t.tag = "TsThisType" -> From_TsThisType(t)
    [] t.tag = "TsFnOrConstructorType" -> From_TsFnOrConstructorType(t)
    [] t.tag = "TsTypeRef" -> From_TsTypeRef(t)
    [] t.tag = "TsTypeQuery" -> From_TsTypeQuery(t)
    [] t.tag = "TsTypeLit" -> From_TsTypeLit(t)
    [] t.tag = "TsArrayType" -> From_TsArrayType(t)
    [] t.tag = "TsTupleType" -> From_TsTupleType(t)
    [] t.tag = "TsOptionalType" -> From_TsOptionalType(t)
    [] t.tag = "TsRestType" -> From_TsRestType(t)
    [] t.tag = "TsUnionOrIntersectionType" -> From_TsUnionOrIntersectionType(t)
    [] t.tag = "TsConditionalType" -> From_TsConditionalType(t)
    [] t.tag = "TsInferType" -> From_TsInferType(t)
    [] t.tag = "TsParenthesizedType" -> From_TsParenthesizedType(t)
    [] t.tag = "TsTypeOperator" -> From_TsTypeOperator(t)
    [] t.tag = "TsIndexedAccessType" -> From_TsIndexedAccessType(t)
    [] t.tag = "TsMappedType" -> From_TsMappedType(t)
    [] t.tag = "TsLitType" -> From_TsLitType(t)
    [] t.tag = "TsTypePredicate" -> From_TsTypePredicate(t)
    [] t.tag = "TsImportType" -> From_TsImportType(t)

\* the two matches on a TsType, entered by the function that holds them
MatchTsType(function, ts_type) ==
  IF function = "From" THEN From_TsType_match(ts_type)
  ELSE ts_type_ann_to_def_match(ts_type)

\* maybe_type_param_instantiation_to_type_defs
maybe_type_param_instantiation_to_type_defs(maybe_type_param_instantiation) ==
  IF maybe_type_param_instantiation = None THEN Some(<<>>)
  ELSE ConvertAll(maybe_type_param_instantiation[1].params)

(***************************************************************************)
(* Inference from an initializer.  The result is None when the call        *)
(* panicked, Some(None) when no type is inferred, Some(Some(node)) else.   *)
(***************************************************************************)

\* an arrow function whose return type, when it is not annotated, is any
From_ArrowExpr_AnyDefault(expr) ==
  Try(AllOk(<< IF expr.return_type = None THEN Some(keyword("any"))
               ELSE ts_type_ann_to_def(expr.return_type[1]),
               maybe_type_param_decl_to_type_param_defs(expr.type_params) >>),
      LAMBDA d :
        Some([ constructor |-> FALSE,
               ts_type |-> d[1],
               params |-> MapSeq(expr.params, pat_to_param_def),
               type_params |-> d[2] ]))

\* impl From<&ArrowExpr> for TsFnOrConstructorDef
From_ArrowExpr(expr) ==
  Try(AllOk(<< IF expr.return_type = None THEN Some(keyword("unknown"))
               ELSE ts_type_ann_to_def(expr.return_type[1]),
               maybe_type_param_decl_to_type_param_defs(expr.type_params) >>),
      LAMBDA d :
        Some([ constructor |-> FALSE,
               ts_type |-> d[1],
               params |-> MapSeq(expr.params, pat_to_param_def),
               type_params |-> d[2] ]))

\* impl From<&FnExpr> for TsFnOrConstructorDef
From_FnExpr(expr) ==
  Try(AllOk(<< IF expr.function.return_type = None THEN Some(keyword("unknown"))
               ELSE ts_type_ann_to_def(expr.function.return_type[1]),
               maybe_type_param_decl_to_type_param_defs(
                 expr.function.type_params) >>),
      LAMBDA d :
        Some([ constructor |-> FALSE,
               ts_type |-> d[1],
               params |-> [i \in 1..Len(expr.function.params) |->
                             pat_to_param_def(expr.function.params[i].pat)],
               type_params |-> d[2] ]))

infer_ts_type_from_arrow_expr(expr) ==
  Try(From_ArrowExpr(expr),
      LAMBDA fn_def :
        SomeOf([Default EXCEPT !.kind = Some("FnOrConstructor"),
                               !.fn_or_constructor = Some(fn_def)]))

infer_ts_type_from_fn_expr(expr) ==
  Try(From_FnExpr(expr),
      LAMBDA fn_def :
        SomeOf([Default EXCEPT !.kind = Some("FnOrConstructor"),
                               !.fn_or_constructor = Some(fn_def)]))

infer_ts_type_from_lit(lit, c) ==
  CASE lit.tag = "Num" ->
         Some(Some(IF c THEN number_literal(lit) ELSE number_with_repr("number")))
    [] lit.tag = "Str" ->
         Some(Some(IF c THEN string_literal(lit) ELSE string_with_repr("string")))
    [] lit.tag = "Bool" ->
         Some(Some(IF c THEN bool_literal(lit) ELSE bool_with_repr("boolean")))
    [] lit.tag = "BigInt" ->
         Some(Some(IF c THEN bigint_literal(lit) ELSE bigint_with_repr("bigint")))
    [] lit.tag = "Regex" -> Some(Some(regexp(lit.exp)))
    [] OTHER -> Some(None)

infer_ts_type_from_new_expr(new_expr) ==
  IF new_expr.callee.tag = "Ident"
  THEN Try(IF new_expr.type_args = None THEN Some(None)
           ELSE Try(maybe_type_param_instantiation_to_type_defs(new_expr.type_args),
                    SomeOf),
           LAMBDA type_params :
             SomeOf([Default EXCEPT
                       !.repr = new_expr.callee.sym,
                       !.kind = Some("TypeRef"),
                       !.type_ref = Some([type_params |-> type_params,
                                          type_name |-> new_expr.callee.sym])]))
  ELSE Some(None)

\* a lookup without the entry of Date
infer_ts_type_from_call_expr_NoDate(call_expr) ==
  IF call_expr.callee.tag = "Expr"
  THEN IF call_expr.callee.expr.tag = "Ident"
       THEN LET sym == call_expr.callee.expr.sym
            IN  CASE sym \in {"Symbol", "Number", "String", "BigInt"} ->
                       Some(Some(keyword_with_repr(to_ascii_lowercase(sym), sym)))
                  [] sym = "RegExp" -> Some(Some(regexp(sym)))
                  [] OTHER -> Some(None)
       ELSE Some(None)
  ELSE Some(None)

infer_ts_type_from_call_expr(call_expr) ==
  IF call_expr.callee.tag = "Expr"
  THEN IF call_expr.callee.expr.tag = "Ident"
       THEN LET sym == call_expr.callee.expr.sym
            IN  CASE sym \in {"Symbol", "Number", "String", "BigInt"} ->
                       Some(Some(keyword_with_repr(to_ascii_lowercase(sym), sym)))
                  [] sym = "Date" -> Some(Some(string_with_repr(sym)))
                  [] sym = "RegExp" -> Some(Some(regexp(sym)))
                  [] OTHER -> Some(None)
       ELSE Some(None)
  ELSE Some(None)

\* a template merged under the const-like flag whatever its segments
infer_ts_type_from_tpl_AnyLength(tpl, c) ==
  IF c THEN tpl_literal(<<>>, tpl.quasis) ELSE Some(string_with_repr("string"))

infer_ts_type_from_tpl(tpl, c) ==
  IF Len(tpl.quasis) = 1 /\ c
  THEN tpl_literal(<<>>, tpl.quasis)
  ELSE Some(string_with_repr("string"))

\* an any[] built over the keyword node, whose payload it keeps
AnyArray_OverKeyword ==
  [keyword("any") EXCEPT !.repr = "any[]", !.kind = Some("Array"),
                         !.array = Some(keyword("any"))]

\* the any[] both early returns of infer_ts_type_from_arr_lit build
AnyArray ==
  [Default EXCEPT !.repr = "any[]", !.kind = Some("Array"),
                  !.array = Some(keyword("any"))]

\* a membership test that never finds the type
Contains_Never(defs, ts_type) == FALSE

\* Vec::contains
Contains(defs, ts_type) == \E i \in 1..Len(defs) : defs[i] = ts_type

\* a final match whose union lists the types last seen first
ArrLitResult_Reversed(defs) ==
  CASE Len(defs) = 1 ->
         Some([Default EXCEPT !.kind = Some("Array"), !.array = Some(defs[1])])
    [] Len(defs) >= 2 ->
         Some([Default EXCEPT
                 !.kind = Some("Array"),
                 !.array = Some([Default EXCEPT
                                   !.kind = Some("Union"),
                                   !.union = Some([i \in 1..Len(defs) |->
                                                     defs[Len(defs) + 1 - i]])])])
    [] OTHER -> None

\* the match on defs.len() that ends infer_ts_type_from_arr_lit
ArrLitResult(defs) ==
  CASE Len(defs) = 1 ->
         Some([Default EXCEPT !.kind = Some("Array"), !.array = Some(defs[1])])
    [] Len(defs) >= 2 ->
         Some([Default EXCEPT
                 !.kind = Some("Array"),
                 !.array = Some([Default EXCEPT !.kind = Some("Union"),
                                                !.union = Some(defs)])])
    [] OTHER -> None

RECURSIVE infer_ts_type_from_expr(_, _)
RECURSIVE ArrLitLoop_SkipSpread(_, _, _)
\* a loop that passes over a spread element as it passes over a hole
ArrLitLoop_SkipSpread(defs, elems, c) ==
  IF elems = <<>> THEN Some(ArrLitResult(defs))
  ELSE IF elems[1] = None THEN ArrLitLoop_SkipSpread(defs, Tail(elems), c)
  ELSE IF elems[1][1].spread = None
  THEN Try(infer_ts_type_from_expr(elems[1][1].expr, c),
           LAMBDA maybe_ts_type :
             IF maybe_ts_type # None
             THEN ArrLitLoop_SkipSpread(IF Contains(defs, maybe_ts_type[1]) THEN defs
                                        ELSE Append(defs, maybe_ts_type[1]),
                                        Tail(elems), c)
             ELSE Some(Some(AnyArray)))
  ELSE ArrLitLoop_SkipSpread(defs, Tail(elems), c)

RECURSIVE ArrLitLoop(_, _, _)
\* the loop of infer_ts_type_from_arr_lit over the elements still to visit
\* (elems.iter().flatten() skips the holes), then the final match
ArrLitLoop(defs, elems, c) ==
  IF elems = <<>> THEN Some(ArrLitResult(defs))
  ELSE IF elems[1] = None THEN ArrLitLoop(defs, Tail(elems), c)
  ELSE IF elems[1][1].spread = None
  THEN Try(infer_ts_type_from_expr(elems[1][1].expr, c),
           LAMBDA maybe_ts_type :
             IF maybe_ts_type # None
             THEN ArrLitLoop(IF Contains(defs, maybe_ts_type[1]) THEN defs
                             ELSE Append(defs, maybe_ts_type[1]),
                             Tail(elems), c)
             ELSE Some(Some(AnyArray)))
  ELSE Some(Some(AnyArray))

infer_ts_type_from_arr_lit(arr_lit, c) == ArrLitLoop(<<>>, arr_lit.elems, c)

infer_ts_type_from_const_assertion(assertion) ==
  IF assertion.expr.tag = "Array"
  THEN infer_ts_type_from_arr_lit(assertion.expr, TRUE)
  ELSE infer_ts_type_from_expr(assertion.expr, TRUE)

infer_ts_type_from_expr(expr, c) ==
  CASE expr.tag = "Array" -> infer_ts_type_from_arr_lit(expr, FALSE)
    [] expr.tag = "Arrow" -> infer_ts_type_from_arrow_expr(expr)
    [] expr.tag = "Fn" -> infer_ts_type_from_fn_expr(expr)
    [] expr.tag = "Lit" -> infer_ts_type_from_lit(expr.lit, c)
    [] expr.tag = "New" -> infer_ts_type_from_new_expr(expr)
    [] expr.tag = "Tpl" -> Try(infer_ts_type_from_tpl(expr, c), SomeOf)
    [] expr.tag = "TsConstAssertion" -> infer_ts_type_from_const_assertion(expr)
    [] expr.tag = "Call" -> infer_ts_type_from_call_expr(expr)
    [] OTHER -> Some(None)

\* a declarator without an initializer given the type any
infer_simple_ts_type_from_var_decl_AnyDefault(decl, c) ==
  IF decl.init # None THEN infer_ts_type_from_expr(decl.init[1], c)
  ELSE Some(Some(keyword("any")))

infer_simple_ts_type_from_var_decl(decl, c) ==
  IF decl.init # None THEN infer_ts_type_from_expr(decl.init[1], c)
  ELSE Some(None)

(***************************************************************************)
(* serde: the derived Serialize and Deserialize.  A JSON value is a record *)
(* [j |-> "null"], [j |-> "str" | "num" | "bool", v |-> ..],               *)
(* [j |-> "arr", v |-> sequence] or [j |-> "obj", v |-> function from the  *)
(* names of the members present].                                          *)
(***************************************************************************)

\* one field of a struct: its name, its name after rename_all = "camelCase",
\* whether it is an Option, whether it is a Vec, the type inside, and its
\* skip_serializing_if ("" when it has none).  No field has serde(default).
Field(rust, js, option, vec, ty, skip) ==
  [rust |-> rust, js |-> js, option |-> option, vec |-> vec, ty |-> ty, skip |-> skip]

\* a variant-specific field that is written even when it is absent
Payload_NeverSkipped(rust, js, vec, ty) == Field(rust, js, TRUE, vec, ty, "")

\* a variant-specific field of TsTypeDef
Payload(rust, js, vec, ty) == Field(rust, js, TRUE, vec, ty, "Option::is_none")

\* the fields of struct TsTypeDef
Schema_TsTypeDef ==
  << Field("repr", "repr", FALSE, FALSE, "String", ""),
     Field("kind", "kind", TRUE, FALSE, "TsTypeDefKind", ""),
     Payload("keyword", "keyword", FALSE, "String"),
     Payload("literal", "literal", FALSE, "LiteralDef"),
     Payload("type_ref", "typeRef", FALSE, "TsTypeRefDef"),
     Payload("union", "union", TRUE, "TsTypeDef"),
     Payload("intersection", "intersection", TRUE, "TsTypeDef"),
     Payload("array", "array", FALSE, "TsTypeDef"),
     Payload("tuple", "tuple", TRUE, "TsTypeDef"),
     Payload("type_operator", "typeOperator", FALSE, "TsTypeOperatorDef"),
     Payload("parenthesized", "parenthesized", FALSE, "TsTypeDef"),
     Payload("rest", "rest", FALSE, "TsTypeDef"),
     Payload("optional", "optional", FALSE, "TsTypeDef"),
     Payload("type_query", "typeQuery", FALSE, "String"),
     Payload("this", "this", FALSE, "bool"),
     Payload("fn_or_constructor", "fnOrConstructor", FALSE, "TsFnOrConstructorDef"),
     Payload("conditional_type", "conditionalType", FALSE, "TsConditionalDef"),
     Payload("infer", "infer", FALSE, "TsInferDef"),
     Payload("indexed_access", "indexedAccess", FALSE, "TsIndexedAccessDef"),
     Payload("mapped_type", "mappedType", FALSE, "TsMappedTypeDef"),
     Payload("type_literal", "typeLiteral", FALSE, "TsTypeLiteralDef"),
     Payload("type_predicate", "typePredicate", FALSE, "TsTypePredicateDef"),
     Payload("import_type", "importType", FALSE, "TsImportTypeDef") >>

\* the fields of struct LiteralDef
Schema_LiteralDef ==
  << Field("kind", "kind", FALSE, FALSE, "LiteralDefKind", ""),
     Field("number", "number", TRUE, FALSE, "f64", "Option::is_none"),
     Field("string", "string", TRUE, FALSE, "String", "Option::is_none"),
     Field("ts_types", "tsTypes", TRUE, TRUE, "TsTypeDef", "Option::is_none"),
     Field("boolean", "boolean", TRUE, FALSE, "bool", "Option::is_none") >>

\* the fields of struct LiteralMethodDef
Schema_LiteralMethodDef ==
  << Field("name", "name", FALSE, FALSE, "String", ""),
     Field("kind", "kind", FALSE, FALSE, "MethodKind", ""),
     Field("params", "params", FALSE, TRUE, "ParamDef", ""),
     Field("computed", "computed", FALSE, FALSE, "bool", "is_false"),
     Field("optional", "optional", FALSE, FALSE, "bool", ""),
     Field("return_type", "returnType", TRUE, FALSE, "TsTypeDef", ""),
     Field("type_params", "typeParams", FALSE, TRUE, "TsTypeParamDef", "") >>

\* the fields of struct LiteralPropertyDef
Schema_LiteralPropertyDef ==
  << Field("name", "name", FALSE, FALSE, "String", ""),
     Field("params", "params", FALSE, TRUE, "ParamDef", ""),
     Field("readonly", "readonly", FALSE, FALSE, "bool", "is_false"),
     Field("computed", "computed", FALSE, FALSE, "bool", ""),
     Field("optional", "optional", FALSE, FALSE, "bool", ""),
     Field("ts_type", "tsType", TRUE, FALSE, "TsTypeDef", ""),
     Field("type_params", "typeParams", FALSE, TRUE, "TsTypeParamDef", "") >>

\* the fields of every other struct that is serialized
Schema(ty) ==
  CASE ty = "TsTypeDef" -> Schema_TsTypeDef
    [] ty = "LiteralDef" -> Schema_LiteralDef
    [] ty = "LiteralMethodDef" -> Schema_LiteralMethodDef
    [] ty = "LiteralPropertyDef" -> Schema_LiteralPropertyDef
    [] ty = "TsTypeRefDef" ->
         << Field("type_params", "typeParams", TRUE, TRUE, "TsTypeDef", ""),
            Field("type_name", "typeName", FALSE, FALSE, "String", "") >>
    [] ty = "TsTypeOperatorDef" ->
         << Field("operator", "operator", FALSE, FALSE, "String", ""),
            Field("ts_type", "tsType", FALSE, FALSE, "TsTypeDef", "") >>
    [] ty = "TsFnOrConstructorDef" ->
         << Field("constructor", "constructor", FALSE, FALSE, "bool", ""),
            Field("ts_type", "tsType", FALSE, FALSE, "TsTypeDef", ""),
            Field("params", "params", FALSE, TRUE, "ParamDef", ""),
            Field("type_params", "typeParams", FALSE, TRUE, "TsTypeParamDef", "") >>
    [] ty = "TsConditionalDef" ->
         << Field("check_type", "checkType", FALSE, FALSE, "TsTypeDef", ""),
            Field("extends_type", "extendsType", FALSE, FALSE, "TsTypeDef", ""),
            Field("true_type", "trueType", FALSE, FALSE, "TsTypeDef", ""),
            Field("false_type", "falseType", FALSE, FALSE, "TsTypeDef", "") >>
    [] ty = "TsInferDef" ->
         << Field("type_param", "typeParam", FALSE, FALSE, "TsTypeParamDef", "") >>
    [] ty = "TsImportTypeDef" ->
         << Field("specifier", "specifier", FALSE, FALSE, "String", ""),
            Field("qualifier", "qualifier", TRUE, FALSE, "String", "Option::is_none"),
            Field("type_params", "typeParams", TRUE, TRUE, "TsTypeDef",
                  "Option::is_none") >>
    [] ty = "TsIndexedAccessDef" ->
         << Field("readonly", "readonly", FALSE, FALSE, "bool", ""),
            Field("obj_type", "objType", FALSE, FALSE, "TsTypeDef", ""),
            Field("index_type", "indexType", FALSE, FALSE, "TsTypeDef", "") >>
    [] ty = "TsMappedTypeDef" ->
         << Field("readonly", "readonly", TRUE, FALSE, "TruePlusMinus",
                  "Option::is_none"),
            Field("type_param", "typeParam", FALSE, FALSE, "TsTypeParamDef", ""),
            Field("name_type", "nameType", TRUE, FALSE, "TsTypeDef", "Option::is_none"),
            Field("optional", "optional", TRUE, FALSE, "TruePlusMinus",
                  "Option::is_none"),
            Field("ts_type", "tsType", TRUE, FALSE, "TsTypeDef", "Option::is_none") >>
    [] ty = "LiteralCallSignatureDef" ->
         << Field("params", "params", FALSE, TRUE, "ParamDef", ""),
            Field("ts_type", "tsType", TRUE, FALSE, "TsTypeDef", ""),
            Field("type_params", "typeParams", FALSE, TRUE, "TsTypeParamDef", "") >>
    [] ty = "LiteralIndexSignatureDef" ->
         << Field("readonly", "readonly", FALSE, FALSE, "bool", ""),
            Field("params", "params", FALSE, TRUE, "ParamDef", ""),
            Field("ts_type", "tsType", TRUE, FALSE, "TsTypeDef", "") >>
    [] ty = "TsTypeLiteralDef" ->
         << Field("methods", "methods", FALSE, TRUE, "LiteralMethodDef", ""),
            Field("properties", "properties", FALSE, TRUE, "LiteralPropertyDef", ""),
            Field("call_signatures", "callSignatures", FALSE, TRUE,
                  "LiteralCallSignatureDef", ""),
            Field("index_signatures", "indexSignatures", FALSE, TRUE,
                  "LiteralIndexSignatureDef", "") >>
    [] ty = "TsTypePredicateDef" ->
         << Field("asserts", "asserts", FALSE, FALSE, "bool", ""),
            Field("param", "param", FALSE, FALSE, "ThisOrIdent", ""),
            Field("type", "type", TRUE, FALSE, "TsTypeDef", "") >>
    [] ty = "ParamDef" ->
         << Field("kind", "kind", FALSE, FALSE, "String", ""),
            Field("name", "name", FALSE, FALSE, "String", "") >>
    [] ty = "TsTypeParamDef" ->
         << Field("name", "name", FALSE, FALSE, "String", ""),
            Field("constraint", "constraint", TRUE, FALSE, "TsTypeDef",
                  "Option::is_none"),
            Field("default", "default", TRUE, FALSE, "TsTypeDef", "Option::is_none") >>

\* the serialized names of the variants of an enum
EnumNames(ty) ==
  CASE ty = "TsTypeDefKind" ->
         [ Keyword |-> "keyword", Literal |-> "literal", TypeRef |-> "typeRef",
           Union |-> "union", Intersection |-> "intersection", Array |-> "array",
           Tuple |-> "tuple", TypeOperator |-> "typeOperator",
           Parenthesized |-> "parenthesized", Rest |-> "rest",
           Optional |-> "optional", TypeQuery |-> "typeQuery", This |-> "this",
           FnOrConstructor |-> "fnOrConstructor", Conditional |-> "conditional",
           Infer |-> "infer", IndexedAccess |-> "indexedAccess",
           Mapped |-> "mapped", TypeLiteral |-> "typeLiteral",
           TypePredicate |-> "typePredicate", ImportType |-> "importType" ]
    [] ty = "LiteralDefKind" ->
         [ Number |-> "number", String |-> "string", Template |-> "template",
           Boolean |-> "boolean", BigInt |-> "bigInt" ]
    [] ty = "MethodKind" ->
         [ Method |-> "method", Getter |-> "getter", Setter |-> "setter" ]
    [] ty = "TruePlusMinus" -> [ True |-> "true", Plus |-> "+", Minus |-> "-" ]

IsEnum(ty) == ty \in {"TsTypeDefKind", "LiteralDefKind", "MethodKind", "TruePlusMinus"}

JNull == [j |-> "null"]

\* skip_serializing_if applied to the value of a field
Skipped(fd, value) ==
  \/ fd.skip = "Option::is_none" /\ value = None
  \/ fd.skip = "is_false" /\ value = FALSE

RECURSIVE Serialize(_, _)
\* the serialized form of the value of one field that is not skipped
SerializeField(fd, value) ==
  LET inner(x) == IF fd.vec
                  THEN [j |-> "arr", v |-> [i \in 1..Len(x) |-> Serialize(fd.ty, x[i])]]
                  ELSE Serialize(fd.ty, x)
  IN  IF fd.option THEN (IF value = None THEN JNull ELSE inner(value[1]))
      ELSE inner(value)

\* derive(Serialize): the JSON value of a value of the type named
Serialize(ty, value) ==
  CASE ty = "String" -> [j |-> "str", v |-> value]
    [] ty = "f64" -> [j |-> "num", v |-> value]
    [] ty = "bool" -> [j |-> "bool", v |-> value]
    [] IsEnum(ty) -> [j |-> "str", v |-> EnumNames(ty)[value]]
    [] ty = "ThisOrIdent" ->
         [j |-> "obj",
          v |-> [n \in DOMAIN value |-> [j |-> "str", v |-> value[n]]]]
    [] OTHER ->
         LET schema == Schema(ty)
             present == {i \in 1..Len(schema) :
                           ~Skipped(schema[i], value[schema[i].rust])}
         IN  [j |-> "obj",
              v |-> [n \in {schema[i].js : i \in present} |->
                       LET fd == CHOOSE f \in {schema[i] : i \in present} : f.js = n
                       IN  SerializeField(fd, value[fd.rust])]]

RECURSIVE Deserialize(_, _)
\* the value of one field read back: None is the error, among them the
\* "missing field" of a member that is absent and is not an Option
DeserializeField(fd, obj) ==
  LET inner(x) ==
        IF fd.vec
        THEN IF x.j # "arr" THEN None
             ELSE LET items == [i \in 1..Len(x.v) |-> Deserialize(fd.ty, x.v[i])]
                  IN  IF \E i \in 1..Len(x.v) : items[i] = None THEN None
                      ELSE Some([i \in 1..Len(x.v) |-> items[i][1]])
        ELSE Deserialize(fd.ty, x)
  IN  IF fd.js \notin DOMAIN obj
      THEN (IF fd.option THEN Some(None) ELSE None)
      ELSE IF fd.option
        THEN IF obj[fd.js].j = "null" THEN Some(None)
             ELSE LET r == inner(obj[fd.js])
                  IN  IF r = None THEN None ELSE Some(Some(r[1]))
        ELSE inner(obj[fd.js])

\* derive(Deserialize): Some(value), or None when reading fails
Deserialize(ty, x) ==
  CASE ty = "String" -> IF x.j = "str" THEN Some(x.v) ELSE None
    [] ty = "f64" -> IF x.j = "num" THEN Some(x.v) ELSE None
    [] ty = "bool" -> IF x.j = "bool" THEN Some(x.v) ELSE None
    [] IsEnum(ty) ->
         IF x.j # "str" THEN None
         ELSE LET names == EnumNames(ty)
                  hit == {n \in DOMAIN names : names[n] = x.v}
              IN  IF hit = {} THEN None ELSE Some(CHOOSE n \in hit : TRUE)
    [] ty = "ThisOrIdent" ->
         IF x.j # "obj" \/ "type" \notin DOMAIN x.v THEN None
         ELSE IF x.v["type"].v = "this" THEN Some([type |-> "this"])
         ELSE IF x.v["type"].v = "identifier" /\ "name" \in DOMAIN x.v
           THEN Some([type |-> "identifier", name |-> x.v["name"].v])
           ELSE None
    [] OTHER ->
         IF x.j # "obj" THEN None
         ELSE LET schema == Schema(ty)
                  fields == [i \in 1..Len(schema) |-> DeserializeField(schema[i], x.v)]
              IN  IF \E i \in 1..Len(schema) : fields[i] = None THEN None
                  ELSE Some([n \in {schema[i].rust : i \in 1..Len(schema)} |->
                               fields[CHOOSE i \in 1..Len(schema) :
                                        schema[i].rust = n][1]])

\* serde_json::to_value of a node
to_value(node) == Serialize("TsTypeDef", node)

\* serde_json::from_value::<TsTypeDef>
from_value(value) == Deserialize("TsTypeDef", value)

(***************************************************************************)
(* The syntax trees the parser hands over.  A shape is a syntax node       *)
(* without spans; Place lays a shape out from an offset the way the        *)
(* parser does, every node spanning its own text and its children lying    *)
(* inside it, in source order.                                             *)
(***************************************************************************)

\* the record with the span added
WithSpan(shape, lo, hi) ==
  [f \in DOMAIN shape \cup {"span"} |-> IF f = "span" THEN <<lo, hi>> ELSE shape[f]]

\* the source text of a keyword
KeywordWidth(kind) ==
  CASE kind \in {"TsAnyKeyword"} -> 3
    [] kind \in {"TsVoidKeyword", "TsNullKeyword"} -> 4
    [] kind \in {"TsNeverKeyword"} -> 5
    [] kind \in {"TsNumberKeyword", "TsObjectKeyword", "TsBigIntKeyword",
                 "TsStringKeyword", "TsSymbolKeyword"} -> 6
    [] kind \in {"TsUnknownKeyword", "TsBooleanKeyword"} -> 7
    [] OTHER -> 9

RECURSIVE EntityWidth(_)
EntityWidth(name) ==
  IF name.tag = "Ident" THEN Len(name.sym)
  ELSE EntityWidth(name.left) + 1
       + (IF name.right.tag = "Ident" THEN Len(name.right.sym)
          ELSE Len(name.right.id.sym))

RECURSIVE Place(_, _)
RECURSIVE PlaceSeq(_, _, _)
\* the types of a list laid out one after the other, gap characters apart
PlaceSeq(shapes, lo, gap) ==
  IF shapes = <<>> THEN <<>>
  ELSE LET first == Place(shapes[1], lo)
       IN  <<first>> \o PlaceSeq(Tail(shapes), first.span[2] + gap, gap)

\* the offset after the last of the placed types, lo when there is none
EndOf(placed, lo) == IF placed = <<>> THEN lo ELSE placed[Len(placed)].span[2]

\* an optional type
PlaceOpt(maybe_shape, lo) ==
  IF maybe_shape = None THEN None ELSE Some(Place(maybe_shape[1], lo))

\* an optional type annotation ": T"
PlaceAnn(maybe_ann, lo) ==
  IF maybe_ann = None THEN None
  ELSE LET t == Place(maybe_ann[1].type_ann, lo + 2)
       IN  Some([span |-> <<lo, t.span[2]>>, type_ann |-> t])

EndOfOpt(placed, lo) == IF placed = None THEN lo ELSE placed[1].span[2]

\* an optional list of type arguments "<T, U>"
PlaceTypeArgs(maybe_inst, lo) ==
  IF maybe_inst = None THEN None
  ELSE LET ps == PlaceSeq(maybe_inst[1].params, lo + 1, 2)
       IN  Some([span |-> <<lo, EndOf(ps, lo + 1) + 1>>, params |-> ps])

\* a type parameter "T extends C = D"
PlaceTypeParam(param, lo) ==
  LET constraint == PlaceOpt(param.constraint, lo + Len(param.name) + 9)
      c_end == EndOfOpt(constraint, lo + Len(param.name))
      default == PlaceOpt(param.default, c_end + 3)
  IN  [ name |-> param.name, constraint |-> constraint, default |-> default,
        span |-> <<lo, EndOfOpt(default, c_end)>> ]

\* optional type parameters "<T>"
PlaceTypeParams(maybe_decl, lo) ==
  IF maybe_decl = None THEN None
  ELSE LET ps == maybe_decl[1].params
           placed == [i \in 1..Len(ps) |-> PlaceTypeParam(ps[i], lo + 1)]
       IN  Some([params |-> placed])

\* the quasis and the interpolated types of a template laid out after the
\* opening backtick at lo: quasi, "${", type, "}", quasi, ...
RECURSIVE PlaceTplParts(_, _, _)
PlaceTplParts(raws, shapes, lo) ==
  LET quasi == [span |-> <<lo, lo + Len(raws[1])>>, raw |-> raws[1]]
  IN  IF shapes = <<>> THEN [quasis |-> <<quasi>>, types |-> <<>>, hi |-> quasi.span[2]]
      ELSE LET t == Place(shapes[1], quasi.span[2] + 2)
               rest == PlaceTplParts(Tail(raws), Tail(shapes), t.span[2] + 1)
           IN  [ quasis |-> <<quasi>> \o rest.quasis,
                 types |-> <<t>> \o rest.types, hi |-> rest.hi ]

\* a member of a type literal: only its type annotation holds types
PlaceMember(member, lo) ==
  IF "type_ann" \in DOMAIN member
  THEN [member EXCEPT !.type_ann = PlaceAnn(member.type_ann, lo + 1)]
  ELSE member

RECURSIVE PlaceMembers(_, _)
PlaceMembers(members, lo) ==
  IF members = <<>> THEN <<>>
  ELSE LET m == PlaceMember(members[1], lo)
           hi == IF "type_ann" \in DOMAIN m THEN EndOfOpt(m.type_ann, lo + 1)
                 ELSE lo + 1
       IN  <<WithSpan(m, lo, hi)>> \o PlaceMembers(Tail(members), hi + 2)

Place(shape, lo) ==
  CASE shape.tag = "TsKeywordType" -> WithSpan(shape, lo, lo + KeywordWidth(shape.kind))
    [] shape.tag = "TsThisType" -> WithSpan(shape, lo, lo + 4)
    [] shape.tag = "TsArrayType" ->
         LET e == Place(shape.elem_type, lo)
         IN  WithSpan([shape EXCEPT !.elem_type = e], lo, e.span[2] + 2)
    [] shape.tag = "TsTupleType" ->
         LET es == PlaceSeq([i \in 1..Len(shape.elem_types) |->
                               shape.elem_types[i].ty], lo + 1, 2)
         IN  WithSpan([shape EXCEPT !.elem_types =
                         [i \in 1..Len(es) |-> [ty |-> es[i]]]],
                      lo, EndOf(es, lo + 1) + 1)
    [] shape.tag = "TsUnionOrIntersectionType" ->
         LET ts == PlaceSeq(shape.types, lo, 3)
         IN  WithSpan([shape EXCEPT !.types = ts], lo, EndOf(ts, lo))
    [] shape.tag = "TsOptionalType" ->
         LET t == Place(shape.type_ann, lo)
         IN  WithSpan([shape EXCEPT !.type_ann = t], lo, t.span[2] + 1)
    [] shape.tag = "TsRestType" ->
         LET t == Place(shape.type_ann, lo + 3)
         IN  WithSpan([shape EXCEPT !.type_ann = t], lo, t.span[2])
    [] shape.tag = "TsParenthesizedType" ->
         LET t == Place(shape.type_ann, lo + 1)
         IN  WithSpan([shape EXCEPT !.type_ann = t], lo, t.span[2] + 1)
    [] shape.tag = "TsTypeOperator" ->
         LET t == Place(shape.type_ann, lo + Len(shape.op) + 1)
         IN  WithSpan([shape EXCEPT !.type_ann = t], lo, t.span[2])
    [] shape.tag = "TsConditionalType" ->
         LET c == Place(shape.check_type, lo)
             e == Place(shape.extends_type, c.span[2] + 9)
             t == Place(shape.true_type, e.span[2] + 3)
             f == Place(shape.false_type, t.span[2] + 3)
         IN  WithSpan([shape EXCEPT !.check_type = c, !.extends_type = e,
                                    !.true_type = t, !.false_type = f],
                      lo, f.span[2])
    [] shape.tag = "TsIndexedAccessType" ->
         LET o == Place(shape.obj_type, lo)
             i == Place(shape.index_type, o.span[2] + 1)
         IN  WithSpan([shape EXCEPT !.obj_type = o, !.index_type = i],
                      lo, i.span[2] + 1)
    [] shape.tag = "TsTypeRef" ->
         LET n == lo + EntityWidth(shape.type_name)
             a == PlaceTypeArgs(shape.type_params, n)
         IN  WithSpan([shape EXCEPT !.type_params = a], lo, EndOfOpt(a, n))
    [] shape.tag = "TsTypeQuery" ->
         WithSpan(shape, lo,
                  lo + 7 + (IF shape.expr_name.tag = "Import"
                            THEN Len(shape.expr_name.arg.value) + 10
                            ELSE EntityWidth(shape.expr_name)))
    [] shape.tag = "TsImportType" ->
         LET n == lo + Len(shape.arg.value) + 10
                  + (IF shape.qualifier = None THEN 0
                     ELSE 1 + EntityWidth(shape.qualifier[1]))
             a == PlaceTypeArgs(shape.type_args, n)
         IN  WithSpan([shape EXCEPT !.type_args = a], lo, EndOfOpt(a, n))
    [] shape.tag = "TsInferType" ->
         LET p == PlaceTypeParam(shape.type_param, lo + 6)
         IN  WithSpan([shape EXCEPT !.type_param = p], lo, p.span[2])
    [] shape.tag = "TsMappedType" ->
         LET p == PlaceTypeParam(shape.type_param, lo + 3)
             n == PlaceOpt(shape.name_type, p.span[2] + 4)
             n_end == EndOfOpt(n, p.span[2])
             t == PlaceOpt(shape.type_ann, n_end + 3)
         IN  WithSpan([shape EXCEPT !.type_param = p, !.name_type = n,
                                    !.type_ann = t],
                      lo, EndOfOpt(t, n_end + 1) + 2)
    [] shape.tag = "TsTypePredicate" ->
         LET n == lo + (IF shape.asserts THEN 8 ELSE 0)
                  + (IF shape.param_name.tag = "TsThisType" THEN 4
                     ELSE Len(shape.param_name.sym))
             a == IF shape.type_ann = None THEN None
                  ELSE LET t == Place(shape.type_ann[1].type_ann, n + 4)
                       IN  Some([span |-> t.span, type_ann |-> t])
         IN  WithSpan([shape EXCEPT !.type_ann = a], lo, EndOfOpt(a, n))
    [] shape.tag = "TsFnOrConstructorType" ->
         LET tp == PlaceTypeParams(shape.type_params, lo)
             n == lo + (IF shape.variant = "TsConstructorType" THEN 4 ELSE 0)
                  + 2 + 3 * Len(shape.params) + 4
             t == Place(shape.type_ann.type_ann, n)
         IN  WithSpan([shape EXCEPT
                         !.type_params = tp,
                         !.type_ann = [span |-> <<n - 3, t.span[2]>>, type_ann |-> t]],
                      lo, t.span[2])
    [] shape.tag = "TsTypeLit" ->
         LET ms == PlaceMembers(shape.members, lo + 2)
         IN  WithSpan([shape EXCEPT !.members = ms], lo, EndOf(ms, lo + 1) + 2)
    [] shape.tag = "TsLitType" ->
         IF shape.lit.tag = "Tpl"
         THEN LET parts == PlaceTplParts(shape.lit.raws, shape.lit.types, lo + 1)
              IN  [ tag |-> "TsLitType", span |-> <<lo, parts.hi + 1>>,
                    lit |-> [ tag |-> "Tpl", span |-> <<lo, parts.hi + 1>>,
                              types |-> parts.types, quasis |-> parts.quasis ] ]
         ELSE WithSpan(shape, lo,
                       lo + (CASE shape.lit.tag = "Str" -> Len(shape.lit.value) + 2
                               [] shape.lit.tag = "Bool" ->
                                    Len(BoolToString(shape.lit.value))
                               [] OTHER -> Len(NumToString(shape.lit.value))))

(***************************************************************************)
(* The inputs                                                              *)
(***************************************************************************)

\* the most members of a union, an intersection, a tuple or a list of type
\* arguments
MaxLen == 2

\* the most members of a type literal
MaxMembers == 3

\* the most interpolated types of a template literal type
MaxTplTypes == 2

\* the most elements of an array literal
MaxElems == 3

\* the most elements of an array literal of mixed elements
MaxMixed == 2

\* the sequences over S of a length from lo to hi
SeqsOf(S, lo, hi) == UNION {[1..n -> S] : n \in lo..hi}

Ident(sym) == [tag |-> "Ident", sym |-> sym]

KeywordShape(kind) == [tag |-> "TsKeywordType", kind |-> kind]

RefShape(name, args) == [tag |-> "TsTypeRef", type_name |-> name, type_params |-> args]

LitShape(lit) == [tag |-> "TsLitType", lit |-> lit]

StrLit(value) == [tag |-> "Str", value |-> value]

NumLit(value) == [tag |-> "Number", value |-> value]

ArrayShape(elem) == [tag |-> "TsArrayType", elem_type |-> elem]

UnionShape(variant, types) ==
  [tag |-> "TsUnionOrIntersectionType", variant |-> variant, types |-> types]

TplShape(raws, types) == LitShape([tag |-> "Tpl", raws |-> raws, types |-> types])

Ann(shape) == [type_ann |-> shape]

KeywordKinds ==
  { "TsAnyKeyword", "TsUnknownKeyword", "TsNumberKeyword", "TsObjectKeyword",
    "TsBooleanKeyword", "TsBigIntKeyword", "TsStringKeyword", "TsSymbolKeyword",
    "TsVoidKeyword", "TsUndefinedKeyword", "TsNullKeyword", "TsNeverKeyword",
    "TsIntrinsicKeyword" }

RefA == RefShape(Ident("A"), None)

RefB == RefShape(Ident("B"), None)

\* the few types that fill the lists
Few == { RefA, RefB, LitShape(StrLit("a")) }

\* the types without a type inside
Atoms ==
  Few \cup
  { KeywordShape(k) : k \in KeywordKinds } \cup
  { [tag |-> "TsThisType"],
    LitShape(NumLit(1)), LitShape([tag |-> "Bool", value |-> TRUE]),
    LitShape([tag |-> "BigInt", value |-> 7]),
    LitShape(StrLit("")),
    RefShape([tag |-> "TsQualifiedName", left |-> Ident("NS"), right |-> Ident("A")],
             None),
    RefShape([tag |-> "TsQualifiedName", left |-> Ident("NS"),
              right |-> [tag |-> "PrivateName", id |-> Ident("p")]], None),
    [tag |-> "TsTypeQuery", expr_name |-> Ident("x")],
    [tag |-> "TsTypeQuery",
     expr_name |-> [tag |-> "Import", arg |-> [value |-> "m"]]],
    [tag |-> "TsInferType",
     type_param |-> [name |-> "U", constraint |-> None, default |-> None]] }

\* the lists of type arguments: none, or up to MaxLen of them
TypeArgs(S) == {None} \cup {Some([params |-> ps]) : ps \in SeqsOf(S, 0, MaxLen)}

TypeParamDecls ==
  { None,
    Some([params |-> <<[name |-> "T", constraint |-> None, default |-> None]>>]),
    Some([params |-> <<[name |-> "T", constraint |-> Some(RefA),
                        default |-> Some(RefB)]>>]) }

FnParams == { <<>>, <<[name |-> "a"]>>, <<[name |-> "a"], [name |-> "b"]>> }

OptAnns == { None, Some(Ann(RefA)), Some(Ann(LitShape(StrLit("a")))) }

\* the members of a type literal, one of each kind and of each combination
\* of flags
Members ==
  { [tag |-> "TsMethodSignature", key |-> Ident("m"), computed |-> c,
     optional |-> o, params |-> ps, type_ann |-> a, type_params |-> None] :
       c \in BOOLEAN, o \in BOOLEAN, ps \in {<<>>, <<[name |-> "a"]>>},
       a \in {None, Some(Ann(RefA))} } \cup
  { [tag |-> "TsGetterSignature", key |-> Ident("p"), computed |-> c,
     optional |-> FALSE, type_ann |-> a] :
       c \in BOOLEAN, a \in {None, Some(Ann(RefA))} } \cup
  { [tag |-> "TsSetterSignature", key |-> Ident("p"), computed |-> c,
     optional |-> FALSE, param |-> [name |-> "v"]] : c \in BOOLEAN } \cup
  { [tag |-> "TsPropertySignature", key |-> Ident("q"), computed |-> c,
     optional |-> o, readonly |-> r, params |-> <<>>, type_ann |-> a,
     type_params |-> None] :
       c \in BOOLEAN, o \in BOOLEAN, r \in BOOLEAN, a \in {None, Some(Ann(RefA))} } \cup
  { [tag |-> "TsCallSignatureDecl", params |-> ps, type_ann |-> Some(Ann(RefA)),
     type_params |-> tp] : ps \in FnParams, tp \in TypeParamDecls } \cup
  { [tag |-> "TsIndexSignature", params |-> <<[name |-> "k"]>>,
     type_ann |-> Some(Ann(RefA)), readonly |-> r] : r \in BOOLEAN } \cup
  { [tag |-> "TsConstructSignatureDecl", params |-> ps,
     type_ann |-> Some(Ann(RefA)), type_params |-> None] : ps \in FnParams }

\* the members that fill the longer type literals
FewMembers ==
  { [tag |-> "TsGetterSignature", key |-> Ident("p"), computed |-> FALSE,
     optional |-> FALSE, type_ann |-> Some(Ann(RefA))],
    [tag |-> "TsSetterSignature", key |-> Ident("p"), computed |-> FALSE,
     optional |-> FALSE, param |-> [name |-> "v"]],
    [tag |-> "TsIndexSignature", params |-> <<[name |-> "k"]>>,
     type_ann |-> Some(Ann(RefA)), readonly |-> FALSE],
    [tag |-> "TsPropertySignature", key |-> Ident("q"), computed |-> FALSE,
     optional |-> FALSE, readonly |-> TRUE, params |-> <<>>,
     type_ann |-> Some(Ann(RefA)), type_params |-> None],
    [tag |-> "TsConstructSignatureDecl", params |-> <<>>,
     type_ann |-> Some(Ann(RefA)), type_params |-> None] }

\* the types of every syntactic form built over S, the lists over F
Over(S, F) ==
  { ArrayShape(t) : t \in S } \cup
  { [tag |-> "TsOptionalType", type_ann |-> t] : t \in S } \cup
  { [tag |-> "TsRestType", type_ann |-> t] : t \in S } \cup
  { [tag |-> "TsParenthesizedType", type_ann |-> t] : t \in S } \cup
  { [tag |-> "TsTypeOperator", op |-> op, type_ann |-> t] :
      op \in {"keyof", "unique", "readonly"}, t \in F } \cup
  { [tag |-> "TsTupleType",
     elem_types |-> [i \in 1..Len(ts) |-> [ty |-> ts[i]]]] :
      ts \in SeqsOf(F, 0, MaxLen) } \cup
  { UnionShape(v, ts) : v \in {"TsUnionType", "TsIntersectionType"},
                        ts \in SeqsOf(F, 2, MaxLen) } \cup
  { [tag |-> "TsConditionalType", check_type |-> c, extends_type |-> e,
     true_type |-> t, false_type |-> RefB] : c \in F, e \in F, t \in F } \cup
  { [tag |-> "TsIndexedAccessType", readonly |-> r, obj_type |-> o,
     index_type |-> i] : r \in BOOLEAN, o \in F, i \in F } \cup
  { [tag |-> "TsMappedType", readonly |-> r,
     type_param |-> [name |-> "K", constraint |-> c, default |-> None],
     name_type |-> n, optional |-> o, type_ann |-> t] :
      r \in {None, Some("True"), Some("Plus"), Some("Minus")},
      o \in {None, Some("True"), Some("Plus"), Some("Minus")},
      c \in {None, Some(RefA)}, n \in {None, Some(RefB)},
      t \in {None, Some(RefA)} } \cup
  { RefShape(Ident("G"), a) : a \in TypeArgs(F) } \cup
  { [tag |-> "TsImportType", arg |-> [value |-> "m"], qualifier |-> q,
     type_args |-> a] :
      q \in {None, Some(Ident("Q"))}, a \in TypeArgs(F) } \cup
  { [tag |-> "TsTypePredicate", asserts |-> a, param_name |-> p, type_ann |-> t] :
      a \in BOOLEAN, p \in {[tag |-> "TsThisType"], Ident("x")},
      t \in {None} \cup {Some(Ann(x)) : x \in F} } \cup
  { [tag |-> "TsFnOrConstructorType", variant |-> v, params |-> ps,
     type_params |-> tp, type_ann |-> Ann(t)] :
      v \in {"TsFnType", "TsConstructorType"}, ps \in FnParams,
      tp \in TypeParamDecls, t \in F } \cup
  { [tag |-> "TsTypeLit", members |-> ms] :
      ms \in SeqsOf(Members, 0, 1) \cup SeqsOf(FewMembers, 2, MaxMembers) } \cup
  { TplShape(raws, ts) : raws \in SeqsOf({"", "a"}, 2, 2), ts \in SeqsOf(S, 1, 1) }

\* the interpolated types of the longer templates
TplFew ==
  { RefA, LitShape(StrLit("b")), ArrayShape(RefA),
    [tag |-> "TsIndexedAccessType", readonly |-> FALSE, obj_type |-> RefA,
     index_type |-> RefB],
    [tag |-> "TsConditionalType", check_type |-> RefA, extends_type |-> RefB,
     true_type |-> RefA, false_type |-> RefB] }

\* the template literal types: without an interpolation, and with up to
\* MaxTplTypes of them
Templates ==
  { TplShape(<<raw>>, <<>>) : raw \in {"", "a", "ab"} } \cup
  UNION { { TplShape(raws, ts) : raws \in SeqsOf({"", "a"}, n + 1, n + 1),
                                 ts \in SeqsOf(TplFew, n, n) } :
          n \in 1..MaxTplTypes }

\* the types one level deep
Level1 == Over(Atoms, Few) \cup Templates

\* two composite types, to fill the forms a level further down
Nested == { ArrayShape(RefA), UnionShape("TsUnionType", <<RefA, RefB>>) }

\* the tuples with optional and rest elements
MarkedTuples ==
  { [tag |-> "TsTupleType", elem_types |-> [i \in 1..Len(ts) |-> [ty |-> ts[i]]]] :
      ts \in SeqsOf({ RefA, [tag |-> "TsOptionalType", type_ann |-> RefB],
                      [tag |-> "TsRestType", type_ann |-> ArrayShape(RefA)] },
                    1, MaxLen) }

\* the types two levels deep: the arrays of every type one level deep,
\* every form over the two composite types, and the marked tuples
Level2 ==
  { ArrayShape(t) : t \in Level1 } \cup Over(Nested, Nested) \cup MarkedTuples

\* the type expressions converted, laid out from the offset of the type in
\* its declaration
TsTypes == { Place(shape, 0) : shape \in Atoms \cup Level1 \cup Level2 }


\* the annotations converted through ts_type_ann_to_def
AnnTypes == { Place(shape, 2) : shape \in Atoms \cup Over(Few, Few) }

\* the expressions with type arguments of a heritage clause
ExprsWithTypeArgs ==
  { [expr |-> Ident("Base"), type_args |-> PlaceTypeArgs(a, 5)] :
      a \in TypeArgs(Few) }

\* the literals of an initializer
Lits ==
  { [tag |-> "Num", value |-> 1], [tag |-> "Str", value |-> "a"],
    [tag |-> "Str", value |-> "b"], [tag |-> "Bool", value |-> TRUE],
    [tag |-> "Bool", value |-> FALSE], [tag |-> "BigInt", value |-> 7],
    [tag |-> "Regex", exp |-> "x"], [tag |-> "Null"], [tag |-> "JSXText"] }

LitExpr(lit) == [tag |-> "Lit", lit |-> lit]

CallExpr(callee) == [tag |-> "Call", callee |-> callee, args |-> <<>>]

CalleeExpr(expr) == [tag |-> "Expr", expr |-> expr]

ArrayLit(elems) == [tag |-> "Array", elems |-> elems]

Elem(expr) == Some([spread |-> None, expr |-> expr])

\* the expressions of a shape inference does not support
Unsupported ==
  { Ident("v"), [tag |-> "Object"], [tag |-> "Bin"], [tag |-> "Unary"],
    [tag |-> "Member"], [tag |-> "This"], [tag |-> "Await"], [tag |-> "Paren"],
    [tag |-> "TsAs"], [tag |-> "TsNonNull"], [tag |-> "Cond"], [tag |-> "Class"] }

\* the calls: the built-in callees, an unknown one, and callees that are
\* not an identifier
Calls ==
  { CallExpr(CalleeExpr(Ident(sym))) :
      sym \in {"Symbol", "Number", "String", "BigInt", "Date", "RegExp", "f"} } \cup
  { CallExpr(CalleeExpr([tag |-> "Member"])), CallExpr([tag |-> "Super"]),
    CallExpr([tag |-> "Import"]),
    [tag |-> "Call", callee |-> CalleeExpr(Ident("Number")),
     args |-> <<LitExpr([tag |-> "Str", value |-> "a"])>>] }

News ==
  { [tag |-> "New", callee |-> Ident("Map"), type_args |-> PlaceTypeArgs(a, 7)] :
      a \in TypeArgs(Few) } \cup
  { [tag |-> "New", callee |-> [tag |-> "Member"], type_args |-> None] }

\* the functions: with and without a return annotation, two bodies
Functions ==
  { [tag |-> "Arrow", params |-> ps, return_type |-> PlaceAnn(r, 9),
     type_params |-> tp, body |-> b] :
      ps \in FnParams, r \in OptAnns, tp \in TypeParamDecls,
      b \in {"{}", "{ return 1; }"} } \cup
  { [tag |-> "Fn",
     function |-> [params |-> [i \in 1..Len(ps) |-> [pat |-> ps[i]]],
                   return_type |-> PlaceAnn(r, 9), type_params |-> tp,
                   body |-> b]] :
      ps \in FnParams, r \in OptAnns, tp \in TypeParamDecls,
      b \in {"{}", "{ return 1; }"} }

TplExprs ==
  { [tag |-> "Tpl", quasis |-> <<[span |-> <<1, 1 + Len(raw)>>, raw |-> raw]>>,
     exprs |-> <<>>] : raw \in {"", "a"} } \cup
  { [tag |-> "Tpl",
     quasis |-> <<[span |-> <<1, 2>>, raw |-> "a"], [span |-> <<6, 6>>, raw |-> ""]>>,
     exprs |-> <<Ident("v")>>] }

\* the elements of an array literal: a hole, a spread, and expressions that
\* are inferable or not, an array among them
ElemChoices ==
  { None, Some([spread |-> Some(<<1, 4>>), expr |-> Ident("v")]),
    Elem(LitExpr([tag |-> "Str", value |-> "a"])),
    Elem(LitExpr([tag |-> "Num", value |-> 1])),
    Elem(CallExpr(CalleeExpr(Ident("f")))),
    Elem(ArrayLit(<<Elem(LitExpr([tag |-> "Str", value |-> "a"]))>>)) }

\* the inferable elements of the mixed array literals: scalar literals,
\* calls of the built-in wrappers, a template literal, a new expression and
\* arrow functions without and with a return annotation
MixedElems ==
  { Elem(LitExpr([tag |-> "Num", value |-> 1])),
    Elem(LitExpr([tag |-> "Str", value |-> "a"])),
    Elem(CallExpr(CalleeExpr(Ident("Number")))),
    Elem(CallExpr(CalleeExpr(Ident("String")))),
    Elem(CallExpr(CalleeExpr(Ident("Date")))),
    Elem([tag |-> "Tpl", quasis |-> <<[span |-> <<1, 2>>, raw |-> "a"]>>,
          exprs |-> <<>>]),
    Elem([tag |-> "New", callee |-> Ident("Map"), type_args |-> None]) } \cup
  { Elem([tag |-> "Arrow", params |-> <<>>, return_type |-> PlaceAnn(r, 9),
          type_params |-> None, body |-> "{}"]) :
      r \in {None, Some(Ann(RefA))} }

\* the array literals: every sequence of the element choices, and the
\* short sequences of the mixed elements
ArrayLits ==
  { ArrayLit(elems) : elems \in SeqsOf(ElemChoices, 0, MaxElems) } \cup
  { ArrayLit(elems) : elems \in SeqsOf(MixedElems, 1, MaxMixed) }

\* the expressions that are not a const assertion
PlainExprs ==
  { LitExpr(lit) : lit \in Lits } \cup Unsupported \cup Calls \cup News
  \cup Functions \cup TplExprs \cup ArrayLits

\* the initializers
Exprs ==
  PlainExprs \cup { [tag |-> "TsConstAssertion", expr |-> e] : e \in PlainExprs }

\* the declarators: without an initializer, and with one
VarDeclarators ==
  { [name |-> Ident("v"), init |-> None] } \cup
  { [name |-> Ident("v"), init |-> Some(e)] :
      e \in { LitExpr(lit) : lit \in Lits } \cup Calls }

(***************************************************************************)
(* The documentation of a declaration: its type is converted or inferred,  *)
(* then printed, serialized and read back.                                 *)
(***************************************************************************)

Init ==
  /\ pc = "idle"
  /\ src = None
  /\ is_const = FALSE
  /\ def = None
  /\ text = None
  /\ json = None
  /\ back = None

\* the end of a conversion or of an inference: outcome is None when it
\* panicked, else Some of the optional node it returned
Finish(input, c, outcome) ==
  /\ src' = Some(input)
  /\ is_const' = c
  /\ pc' = IF outcome = None THEN "aborted" ELSE "done"
  /\ def' = IF outcome = None THEN None ELSE outcome[1]
  /\ text' = None
  /\ json' = None
  /\ back' = None

\* the type of a type alias (get_doc_for_ts_type_alias_decl)
Convert ==
  /\ pc = "idle"
  /\ \E t \in TsTypes :
       Finish([op |-> "convert", type |-> t], FALSE, Try(From_TsType(t), SomeOf))

\* the type of an annotation
ConvertAnn ==
  /\ pc = "idle"
  /\ \E t \in AnnTypes :
       Finish([op |-> "convert_ann", type |-> t], FALSE,
              Try(ts_type_ann_to_def([span |-> t.span, type_ann |-> t]), SomeOf))

\* the type a heritage clause names
ConvertExprWithTypeArgs ==
  /\ pc = "idle"
  /\ \E e \in ExprsWithTypeArgs :
       Finish([op |-> "convert_expr_with_type_args", expr_with_type_args |-> e],
              FALSE, Try(From_TsExprWithTypeArgs(e), SomeOf))

\* the type of an expression
Infer ==
  /\ pc = "idle"
  /\ \E e \in Exprs, c \in BOOLEAN :
       Finish([op |-> "infer", expr |-> e], c, infer_ts_type_from_expr(e, c))

\* the type of a variable from its declarator
InferVarDecl ==
  /\ pc = "idle"
  /\ \E d \in VarDeclarators, c \in BOOLEAN :
       Finish([op |-> "infer_decl", decl |-> d], c,
              infer_simple_ts_type_from_var_decl(d, c))

\* the node is printed
Render ==
  /\ pc = "done"
  /\ def # None
  /\ text' = to_string(def[1])
  /\ pc' = IF text' = None THEN "aborted" ELSE "rendered"
  /\ UNCHANGED <<src, is_const, def, json, back>>

\* the node is serialized
Save ==
  /\ pc \in {"done", "rendered"}
  /\ def # None
  /\ json' = Some(to_value(def[1]))
  /\ pc' = "serialized"
  /\ UNCHANGED <<src, is_const, def, text, back>>

\* the serialized node is read back
Load ==
  /\ pc = "serialized"
  /\ back' = from_value(json[1])
  /\ pc' = IF back' = None THEN "load_failed" ELSE "loaded"
  /\ UNCHANGED <<src, is_const, def, text, json>>

\* the next declaration
Reset ==
  /\ pc # "idle"
  /\ pc' = "idle"
  /\ src' = None
  /\ is_const' = FALSE
  /\ def' = None
  /\ text' = None
  /\ json' = None
  /\ back' = None

Next ==
  \/ Convert
  \/ ConvertAnn
  \/ ConvertExprWithTypeArgs
  \/ Infer
  \/ InferVarDecl
  \/ Render
  \/ Save
  \/ Load
  \/ Reset

Spec == Init /\ [][Next]_vars

(***************************************************************************)
(* Properties                                                              *)
(***************************************************************************)

\* the input of the operation that ran last
Input == src[1]

Converted == src # None /\ Input.op = "convert"

Inferred == src # None /\ Input.op \in {"infer", "infer_decl"}

\* the kind that corresponds to a syntactic tag
ExpectedKind(ts_type) ==
  CASE ts_type.tag = "TsKeywordType" -> "Keyword"
    [] ts_type.tag = "TsThisType" -> "This"
    [] ts_type.tag = "TsFnOrConstructorType" -> "FnOrConstructor"
    [] ts_type.tag = "TsTypeRef" -> "TypeRef"
    [] ts_type.tag = "TsTypeQuery" -> "TypeQuery"
    [] ts_type.tag = "TsTypeLit" -> "TypeLiteral"
    [] ts_type.tag = "TsArrayType" -> "Array"
    [] ts_type.tag = "TsTupleType" -> "Tuple"
    [] ts_type.tag = "TsOptionalType" -> "Optional"
    [] ts_type.tag = "TsRestType" -> "Rest"
    [] ts_type.tag = "TsUnionOrIntersectionType" ->
         IF ts_type.variant = "TsUnionType" THEN "Union" ELSE "Intersection"
    [] ts_type.tag = "TsConditionalType" -> "Conditional"
    [] ts_type.tag = "TsInferType" -> "Infer"
    [] ts_type.tag = "TsParenthesizedType" -> "Parenthesized"
    [] ts_type.tag = "TsTypeOperator" -> "TypeOperator"
    [] ts_type.tag = "TsIndexedAccessType" -> "IndexedAccess"
    [] ts_type.tag = "TsMappedType" -> "Mapped"
    [] ts_type.tag = "TsLitType" -> "Literal"
    [] ts_type.tag = "TsTypePredicate" -> "TypePredicate"
    [] ts_type.tag = "TsImportType" -> "ImportType"
    [] OTHER -> "Unknown"

\* C1: converting a type expression of any syntactic tag never aborts and
\* gives a node whose kind is the kind that corresponds to the tag.
C1_ConversionTotal ==
  Converted =>
    /\ pc # "aborted"
    /\ def # None
    /\ def[1].kind = Some(ExpectedKind(Input.type))

\* a mapped type has been converted to a Mapped node
C1_Witness ==
  /\ Converted
  /\ pc = "done"
  /\ Input.type.tag = "TsMappedType"
  /\ def # None
  /\ def[1].kind = Some("Mapped")

RECURSIVE Flatten(_)
\* the concatenation of a sequence of sequences
Flatten(seqs) == IF seqs = <<>> THEN <<>> ELSE seqs[1] \o Flatten(Tail(seqs))

\* the sequence inside an optional sequence
OptSeq(o) == IF o = None THEN <<>> ELSE o[1]

\* the nodes a type parameter holds
TypeParamNodes(tp) == tp.constraint \o tp.default

TypeParamsNodes(tps) == Flatten([i \in 1..Len(tps) |-> TypeParamNodes(tps[i])])

\* the nodes a type literal holds
TypeLiteralNodes(tl) ==
  Flatten([i \in 1..Len(tl.methods) |->
             tl.methods[i].return_type \o TypeParamsNodes(tl.methods[i].type_params)])
  \o Flatten([i \in 1..Len(tl.properties) |->
                tl.properties[i].ts_type
                \o TypeParamsNodes(tl.properties[i].type_params)])
  \o Flatten([i \in 1..Len(tl.call_signatures) |->
                tl.call_signatures[i].ts_type
                \o TypeParamsNodes(tl.call_signatures[i].type_params)])
  \o Flatten([i \in 1..Len(tl.index_signatures) |-> tl.index_signatures[i].ts_type])

\* the nodes directly inside a node, whichever payloads it has
Children(node) ==
  node.array \o OptSeq(node.tuple) \o OptSeq(node.union)
  \o OptSeq(node.intersection)
  \o (IF node.type_operator = None THEN <<>> ELSE <<node.type_operator[1].ts_type>>)
  \o node.parenthesized \o node.rest \o node.optional
  \o (IF node.type_ref = None THEN <<>> ELSE OptSeq(node.type_ref[1].type_params))
  \o (IF node.fn_or_constructor = None THEN <<>>
      ELSE <<node.fn_or_constructor[1].ts_type>>
           \o TypeParamsNodes(node.fn_or_constructor[1].type_params))
  \o (IF node.conditional_type = None THEN <<>>
      ELSE << node.conditional_type[1].check_type,
              node.conditional_type[1].extends_type,
              node.conditional_type[1].true_type,
              node.conditional_type[1].false_type >>)
  \o (IF node.infer = None THEN <<>> ELSE TypeParamNodes(node.infer[1].type_param))
  \o (IF node.indexed_access = None THEN <<>>
      ELSE <<node.indexed_access[1].obj_type, node.indexed_access[1].index_type>>)
  \o (IF node.mapped_type = None THEN <<>>
      ELSE TypeParamNodes(node.mapped_type[1].type_param)
           \o node.mapped_type[1].name_type \o node.mapped_type[1].ts_type)
  \o (IF node.type_literal = None THEN <<>>
      ELSE TypeLiteralNodes(node.type_literal[1]))
  \o (IF node.type_predicate = None THEN <<>> ELSE node.type_predicate[1].type)
  \o (IF node.import_type = None THEN <<>>
      ELSE OptSeq(node.import_type[1].type_params))
  \o (IF node.literal = None THEN <<>> ELSE OptSeq(node.literal[1].ts_types))

\* the node has a kind and the payload of that kind, and no other payload
OnePayload(node) ==
  /\ node.kind # None
  /\ node.kind[1] \in TsTypeDefKind
  /\ \A f \in PayloadFields : (node[f] # None) <=> (f = PayloadOf(node.kind[1]))

RECURSIVE WellFormed(_)
\* OnePayload at every depth
WellFormed(node) ==
  /\ OnePayload(node)
  /\ \A i \in 1..Len(Children(node)) : WellFormed(Children(node)[i])

RECURSIVE Depth(_)
\* the number of levels of a node
Depth(node) ==
  LET below == Children(node)
      depths == {Depth(below[i]) : i \in 1..Len(below)}
  IN  IF below = <<>> THEN 1
      ELSE 1 + CHOOSE d \in depths : \A e \in depths : e <= d

\* C2: every node that conversion or inference produces has, at every depth,
\* its kind set and exactly the payload of that kind populated.
C2_OnePayloadPerNode ==
  (src # None /\ def # None) => WellFormed(def[1])

\* inference has produced an array of a union, three levels of nodes
C2_Witness ==
  /\ Inferred
  /\ def # None
  /\ def[1].kind = Some("Array")
  /\ def[1].array[1].kind = Some("Union")
  /\ Depth(def[1]) = 3
  /\ WellFormed(def[1])

\* the text of a template literal type as its source has it between the
\* backticks: each quasi, followed by the interpolation the layout puts after
\* it, written as ${ } around the rendering of the interpolated type
TemplateSource(lit) ==
  ConcatAll([i \in 1..Len(lit.quasis) |->
               lit.quasis[i].raw
               \o (IF i <= Len(lit.types)
                   THEN "${" \o to_string(From_TsType(lit.types[i])[1])[1] \o "}"
                   ELSE "")])

\* a template literal type has been converted
ConvertedTemplate ==
  /\ Converted
  /\ Input.type.tag = "TsLitType"
  /\ Input.type.lit.tag = "Tpl"

\* C3: the rendering of a converted template literal type is, between the
\* backticks, the concatenation in source order of the raw text of each quasi
\* and of ${ } around the rendering of each interpolated type, whatever the
\* kind of the interpolated type.
C3_TemplateRoundTrip ==
  (ConvertedTemplate /\ pc = "rendered") =>
    text = Some(Backtick \o TemplateSource(Input.type.lit) \o Backtick)

\* a number, string, boolean or big-integer literal
ScalarLit(lit) == lit.tag \in {"Num", "Str", "Bool", "BigInt"}

\* the node is the precise literal type of a scalar literal: a Literal node
\* of its category that carries its value
PreciseOf(node, lit) ==
  /\ node.kind = Some("Literal")
  /\ node.literal # None
  /\ CASE lit.tag = "Num" ->
            /\ node.literal[1].kind = "Number"
            /\ node.literal[1].number = Some(lit.value)
       [] lit.tag = "Str" ->
            /\ node.literal[1].kind = "String"
            /\ node.literal[1].string = Some(lit.value)
       [] lit.tag = "Bool" ->
            /\ node.literal[1].kind = "Boolean"
            /\ node.literal[1].boolean = Some(lit.value)
       [] lit.tag = "BigInt" ->
            /\ node.literal[1].kind = "BigInt"
            /\ node.literal[1].string = Some(NumToString(lit.value))

\* the primitive a scalar literal widens to
WidenedKeyword(lit) ==
  CASE lit.tag = "Num" -> "number"
    [] lit.tag = "Str" -> "string"
    [] lit.tag = "Bool" -> "boolean"
    [] lit.tag = "BigInt" -> "bigint"

\* the node is the keyword type a scalar literal widens to
WidenedOf(node, lit) ==
  /\ node.kind = Some("Keyword")
  /\ node.keyword = Some(WidenedKeyword(lit))

\* an array literal whose elements are all scalar literals, at least one
ScalarArray(expr) ==
  /\ expr.tag = "Array"
  /\ expr.elems # <<>>
  /\ \A i \in 1..Len(expr.elems) :
       /\ expr.elems[i] # None
       /\ expr.elems[i][1].spread = None
       /\ expr.elems[i][1].expr.tag = "Lit"
       /\ ScalarLit(expr.elems[i][1].expr.lit)

\* the literals of the elements of a ScalarArray
ElemLits(expr) == [i \in 1..Len(expr.elems) |-> expr.elems[i][1].expr.lit]

\* the element types of an Array node: the members of its union, or its
\* one element type
ElementTypes(node) ==
  IF node.array[1].kind = Some("Union") THEN node.array[1].union[1]
  ELSE <<node.array[1]>>

\* the node is an array whose element types are the types of the literals
\* with duplicates removed: no type twice, a type for each literal, no other
\* type, and a union only of two types or more
CollapsedPrecise(node, lits) ==
  /\ node.kind = Some("Array")
  /\ node.array # None
  /\ LET types == ElementTypes(node)
     IN  /\ \A i, j \in 1..Len(types) : i # j => types[i] # types[j]
         /\ \A k \in 1..Len(lits) : \E i \in 1..Len(types) : PreciseOf(types[i], lits[k])
         /\ \A i \in 1..Len(types) : \E k \in 1..Len(lits) : PreciseOf(types[i], lits[k])
         /\ Len(types) = Cardinality({lits[k] : k \in 1..Len(lits)})
         /\ (node.array[1].kind = Some("Union")) <=> (Len(types) >= 2)

CollapsedWidened(node, lits) ==
  /\ node.kind = Some("Array")
  /\ node.array # None
  /\ LET types == ElementTypes(node)
     IN  /\ \A i, j \in 1..Len(types) : i # j => types[i] # types[j]
         /\ \A k \in 1..Len(lits) : \E i \in 1..Len(types) : WidenedOf(types[i], lits[k])
         /\ \A i \in 1..Len(types) : \E k \in 1..Len(lits) : WidenedOf(types[i], lits[k])
         /\ Len(types) = Cardinality({WidenedKeyword(lits[k]) : k \in 1..Len(lits)})
         /\ (node.array[1].kind = Some("Union")) <=> (Len(types) >= 2)

\* infer_ts_type_from_expr has run on an array literal of scalar literals
InferredScalarArray ==
  /\ src # None
  /\ Input.op = "infer"
  /\ ScalarArray(Input.expr)

\* infer_ts_type_from_expr has run on the const assertion of an array
\* literal of scalar literals
InferredConstScalarArray ==
  /\ src # None
  /\ Input.op = "infer"
  /\ Input.expr.tag = "TsConstAssertion"
  /\ ScalarArray(Input.expr.expr)

C5_SerdeRoundTrip ==
  (Converted /\ pc \in {"loaded", "load_failed"}) =>
    /\ pc = "loaded"
    /\ back = def

\* the scalar literal whose type has been inferred, from an initializer
\* expression or from the initializer of a declarator
InferredLit ==
  IF Input.op = "infer" THEN Input.expr.lit ELSE Input.decl.init[1].lit

\* inference has run on a scalar literal
InferredScalarLit ==
  /\ Inferred
  /\ IF Input.op = "infer" THEN Input.expr.tag = "Lit"
     ELSE Input.decl.init # None /\ Input.decl.init[1].tag = "Lit"
  /\ ScalarLit(InferredLit)

\* C6: for a number, string, boolean or big-integer literal, inference with
\* the const-like flag true gives the Literal node of the category of the
\* literal, carrying its value; with the flag false it gives the Keyword
\* node of the primitive the literal widens to, displayed as that keyword.
C6_ScalarLiteralInference ==
  InferredScalarLit =>
    /\ pc # "aborted"
    /\ def # None
    /\ is_const => PreciseOf(def[1], InferredLit)
    /\ ~is_const =>
         /\ WidenedOf(def[1], InferredLit)
         /\ def[1].repr = WidenedKeyword(InferredLit)
         /\ to_string(def[1]) = Some(WidenedKeyword(InferredLit))
         /\ pc = "rendered" => text = Some(WidenedKeyword(InferredLit))

\* the big-integer literal 7 has been inferred without the const-like flag
\* and displayed: bigint
C6_Witness ==
  /\ InferredScalarLit
  /\ ~is_const
  /\ InferredLit.tag = "BigInt"
  /\ pc = "rendered"
  /\ text = Some("bigint")

RECURSIVE ScalarNestedArray(_)
\* an array literal whose elements are scalar literals or array literals of
\* the same form, at least one at each level
ScalarNestedArray(expr) ==
  /\ expr.tag = "Array"
  /\ expr.elems # <<>>
  /\ \A i \in 1..Len(expr.elems) :
       /\ expr.elems[i] # None
       /\ expr.elems[i][1].spread = None
       /\ IF expr.elems[i][1].expr.tag = "Lit"
          THEN ScalarLit(expr.elems[i][1].expr.lit)
          ELSE ScalarNestedArray(expr.elems[i][1].expr)

RECURSIVE NoKeyword(_)
\* no node of the tree is a Keyword node
NoKeyword(node) ==
  /\ node.kind # Some("Keyword")
  /\ \A i \in 1..Len(Children(node)) : NoKeyword(Children(node)[i])

\* infer_ts_type_from_expr has run on a const assertion
InferredConstAssertion ==
  /\ src # None
  /\ Input.op = "infer"
  /\ Input.expr.tag = "TsConstAssertion"

\* C7: the type inferred for a const assertion does not depend on the
\* const-like flag of the caller and is the type inferred for the inner
\* expression with the flag true; when the inner expression is an array
\* literal, every scalar literal in it, the elements of nested array literals
\* included, gets its precise literal type and no keyword type.
C7_ConstAssertion ==
  InferredConstAssertion =>
    /\ pc # "aborted"
    /\ Some(def) = infer_ts_type_from_expr(Input.expr, ~is_const)
    /\ Input.expr.expr.tag # "Array" =>
         Some(def) = infer_ts_type_from_expr(Input.expr.expr, TRUE)
    /\ ScalarNestedArray(Input.expr.expr) =>
         /\ def # None
         /\ def[1].kind = Some("Array")
         /\ NoKeyword(def[1])
         /\ \A i \in 1..Len(Input.expr.expr.elems) :
              LET elem == Input.expr.expr.elems[i][1].expr
              IN  elem.tag = "Lit" =>
                    \E k \in 1..Len(ElementTypes(def[1])) :
                      PreciseOf(ElementTypes(def[1])[k], elem.lit)

\* the shapes of expression inference has an arm for
InferableShapes ==
  {"Array", "Arrow", "Fn", "Lit", "New", "Tpl", "TsConstAssertion", "Call"}

\* C8: inference never aborts: for every initializer and either value of the
\* const-like flag it ends with a node or with absent; an expression of a
\* shape other than array literal, arrow function, function expression,
\* literal, new expression, template literal, const assertion and call gives
\* absent, and so does a declarator without an initializer.
C8_InferenceNeverFails ==
  Inferred =>
    /\ pc # "aborted"
    /\ pc # "idle"
    /\ (Input.op = "infer" /\ Input.expr.tag \notin InferableShapes) => def = None
    /\ (Input.op = "infer_decl" /\ Input.decl.init = None) => def = None

\* a declarator without an initializer has been inferred: absent
C8_Witness ==
  /\ Inferred
  /\ Input.op = "infer_decl"
  /\ Input.decl.init = None
  /\ pc = "done"
  /\ def = None

\* the members of a type literal that are recorded as methods
MethodLike ==
  { "TsMethodSignature", "TsGetterSignature", "TsSetterSignature",
    "TsConstructSignatureDecl" }

\* the members whose tag is one of tags, in their order
MembersOf(members, tags) == SelectSeq(members, LAMBDA m : m.tag \in tags)

\* the method entry is the one the member is to give
MethodEntryOf(entry, member) ==
  CASE member.tag = "TsGetterSignature" ->
         entry.kind = "Getter" /\ entry.params = <<>>
    [] member.tag = "TsSetterSignature" ->
         entry.kind = "Setter" /\ Len(entry.params) = 1
    [] member.tag = "TsMethodSignature" ->
         entry.kind = "Method" /\ Len(entry.params) = Len(member.params)
    [] member.tag = "TsConstructSignatureDecl" ->
         entry.kind = "Method" /\ entry.name = "new"

\* a type literal has been converted
ConvertedTypeLit ==
  /\ Converted
  /\ Input.type.tag = "TsTypeLit"

\* C9: converting a type literal puts each member into exactly one of the
\* four sequences: methods, getters, setters and construct signatures into
\* methods (a getter as kind Getter without parameters, a setter as kind
\* Setter with one parameter, a method as kind Method, a construct signature
\* as kind Method named new), properties into properties, call signatures
\* into call_signatures, index signatures into index_signatures.  A getter, a
\* setter of the same name and an index signature give the two method
\* entries Getter and Setter, one index signature entry and no property.
C9_TypeLiteralDecomposition ==
  ConvertedTypeLit =>
    /\ def # None
    /\ def[1].type_literal # None
    /\ LET tl == def[1].type_literal[1]
           members == Input.type.members
           methods == MembersOf(members, MethodLike)
       IN  /\ Len(tl.methods) + Len(tl.properties) + Len(tl.call_signatures)
                + Len(tl.index_signatures) = Len(members)
           /\ Len(tl.methods) = Len(methods)
           /\ \A i \in 1..Len(methods) : MethodEntryOf(tl.methods[i], methods[i])
           /\ Len(tl.properties) = Len(MembersOf(members, {"TsPropertySignature"}))
           /\ Len(tl.call_signatures) = Len(MembersOf(members, {"TsCallSignatureDecl"}))
           /\ Len(tl.index_signatures) = Len(MembersOf(members, {"TsIndexSignature"}))
           /\ ( /\ Len(members) = 3
                /\ members[1].tag = "TsGetterSignature"
                /\ members[2].tag = "TsSetterSignature"
                /\ members[1].key = members[2].key
                /\ members[3].tag = "TsIndexSignature" ) =>
                /\ Len(tl.methods) = 2
                /\ tl.methods[1].kind = "Getter"
                /\ tl.methods[2].kind = "Setter"
                /\ tl.methods[1].name = tl.methods[2].name
                /\ Len(tl.index_signatures) = 1
                /\ tl.properties = <<>>
                /\ tl.call_signatures = <<>>

\* a getter, a setter of the same name and an index signature have been
\* converted: two methods, one index signature
C9_Witness ==
  /\ ConvertedTypeLit
  /\ Len(Input.type.members) = 3
  /\ Input.type.members[1].tag = "TsGetterSignature"
  /\ Input.type.members[2].tag = "TsSetterSignature"
  /\ Input.type.members[1].key = Input.type.members[2].key
  /\ Input.type.members[3].tag = "TsIndexSignature"
  /\ def # None
  /\ Len(def[1].type_literal[1].methods) = 2
  /\ Len(def[1].type_literal[1].index_signatures) = 1

\* an Array node has been printed
RenderedArray ==
  /\ src # None
  /\ pc = "rendered"
  /\ def # None
  /\ def[1].kind = Some("Array")
  /\ def[1].array # None

\* a type reference without type arguments
PlainTypeRef(node) ==
  /\ node.kind = Some("TypeRef")
  /\ node.type_ref # None
  /\ node.type_ref[1].type_params = None

\* C10: an Array node whose element is a Union or an Intersection node is
\* rendered as the rendering of the element between parentheses, followed
\* by []; one whose element is a plain type reference as the rendering of
\* the element followed by [], without parentheses: (A | B)[] and A[].
C10_ArrayPrecedence ==
  RenderedArray =>
    LET element == def[1].array[1]
        inner == to_string(element)
    IN  /\ element.kind \in {Some("Union"), Some("Intersection")} =>
             /\ inner # None
             /\ text = Some("(" \o inner[1] \o ")[]")
        /\ PlainTypeRef(element) =>
             /\ text = Some(element.type_ref[1].type_name \o "[]")
             /\ text = Some(inner[1] \o "[]")
        /\ ( /\ Converted
             /\ Input.type.elem_type.tag = "TsUnionOrIntersectionType"
             /\ Len(Input.type.elem_type.types) = 2
             /\ \A i \in 1..2 :
                  /\ Input.type.elem_type.types[i].tag = "TsTypeRef"
                  /\ Input.type.elem_type.types[i].type_params = None
                  /\ Input.type.elem_type.types[i].type_name.tag = "Ident" ) =>
             text = Some("(" \o Input.type.elem_type.types[1].type_name.sym
                         \o (IF Input.type.elem_type.variant = "TsUnionType"
                             THEN " | " ELSE " & ")
                         \o Input.type.elem_type.types[2].type_name.sym \o ")[]")

\* the array of the intersection of A and B has been printed
C10_Witness ==
  /\ RenderedArray
  /\ def[1].array[1].kind = Some("Intersection")
  /\ text = Some("(A & B)[]")

(***************************************************************************)
(* Rendering of any node.  TsTypeDef derives Default and Deserialize and   *)
(* its fields are public, so a node may carry any combination of fields:   *)
(* no kind, or a kind without its payload.  SpecRender renders such nodes. *)
(***************************************************************************)

\* enum TsTypeDefKind
TsTypeDefKinds ==
  { "Keyword", "Literal", "TypeRef", "Union", "Intersection", "Array", "Tuple",
    "TypeOperator", "Parenthesized", "Rest", "Optional", "TypeQuery", "This",
    "FnOrConstructor", "Conditional", "Infer", "IndexedAccess", "Mapped",
    "TypeLiteral", "TypePredicate", "ImportType" }

\* a node with the kind set and every payload absent
Mismatched(kind) == [Default EXCEPT !.kind = Some(kind)]

\* the string literal node of a quasi
StringNode(s) == literal(s, LiteralDef("String", None, Some(s), None, None))

\* nodes that hold no other node: the node without a kind, three sound
\* ones, and the mismatched node of each kind
LeafNodes ==
  { Default, keyword("any"), StringNode("a"),
    [Default EXCEPT !.repr = "A", !.kind = Some("TypeRef"),
                    !.type_ref = Some([type_params |-> None, type_name |-> "A"])] }
  \cup { Mismatched(kind) : kind \in TsTypeDefKinds }

ArrayOf(node) == [Default EXCEPT !.kind = Some("Array"), !.array = Some(node)]

UnionOf(nodes) == [Default EXCEPT !.kind = Some("Union"), !.union = Some(nodes)]

IntersectionOf(nodes) ==
  [Default EXCEPT !.kind = Some("Intersection"), !.intersection = Some(nodes)]

TupleOf(nodes) == [Default EXCEPT !.kind = Some("Tuple"), !.tuple = Some(nodes)]

TemplateOf(nodes) ==
  literal("", LiteralDef("Template", None, None, Some(nodes), None))

\* the nodes that hold the node as element, member or segment
NodesOver(node) ==
  { ArrayOf(node), UnionOf(<<keyword("any"), node>>),
    IntersectionOf(<<node, keyword("any")>>), TupleOf(<<node>>),
    TemplateOf(<<StringNode("a"), node>>) }

\* the nodes rendered
RenderNodes == LeafNodes \cup UNION { NodesOver(node) : node \in LeafNodes }

InitRender ==
  /\ pc = "done"
  /\ src = None
  /\ is_const = FALSE
  /\ def \in { Some(node) : node \in RenderNodes }
  /\ text = None
  /\ json = None
  /\ back = None

NextRender == Render

SpecRender == InitRender /\ [][NextRender]_vars

\* the sentinel written for a node without a kind
Sentinel == "[UNSUPPORTED]"

\* the text the sentinel gives where the node without a kind stands
SentinelText(node) ==
  CASE node = Default -> Sentinel
    [] node = ArrayOf(Default) -> Sentinel \o "[]"
    [] node = UnionOf(<<keyword("any"), Default>>) -> "any | " \o Sentinel
    [] node = IntersectionOf(<<Default, keyword("any")>>) -> Sentinel \o " & any"
    [] node = TupleOf(<<Default>>) -> "[" \o Sentinel \o "]"
    [] node = TemplateOf(<<StringNode("a"), Default>>) ->
         Backtick \o "a${" \o Sentinel \o "}" \o Backtick

\* a rendering has ended, with a text or with the abort
RenderEnded == pc \in {"rendered", "aborted"} /\ def # None

\* C11: a node without a kind renders as the sentinel and the rendering
\* never aborts, the node being the root, an array element, a member of a
\* union, an intersection or a tuple, or a segment of a template literal
C11_SentinelEverywhere ==
  (RenderEnded /\ def[1] \in {Default} \cup NodesOver(Default))
    => pc = "rendered" /\ text = Some(SentinelText(def[1]))

\* the same outside a template literal, where it holds
C11_SentinelOutsideTemplate ==
  (RenderEnded /\ def[1] \in {Default} \cup NodesOver(Default)
     /\ def[1] # TemplateOf(<<StringNode("a"), Default>>))
    => pc = "rendered" /\ text = Some(SentinelText(def[1]))

\* the template literal with a segment without a kind aborted
C11_TemplateAborted ==
  pc = "aborted" /\ def = Some(TemplateOf(<<StringNode("a"), Default>>))

\* C12: rendering a node whose kind is set and whose payload for that kind is
\* absent aborts and produces no text, for each of the 21 kinds
C12_MismatchAborts ==
  (RenderEnded /\ def[1] \in { Mismatched(kind) : kind \in TsTypeDefKinds })
    => pc = "aborted" /\ text = None

\* the same for the kinds whose arm reads the payload: all but This
C12_MismatchAbortsButThis ==
  (RenderEnded /\ def[1] \in { Mismatched(kind) : kind \in TsTypeDefKinds \ {"This"} })
    => pc = "aborted" /\ text = None

\* string_literal has built the node on hand: a string literal type was
\* converted, or a string literal was inferred with the const-like flag
StringLiteralBuilt ==
  \/ Converted /\ Input.type.tag = "TsLitType" /\ Input.type.lit.tag = "Str"
  \/ InferredScalarLit /\ InferredLit.tag = "Str" /\ is_const

\* the Str node string_literal was given
BuiltFromStr == IF Converted THEN Input.type.lit ELSE InferredLit

\* the content between quotation marks
Quoted(s) == "\"" \o s \o "\""

\* C13: a node built by string_literal holds the unquoted content in the
\* value field of its literal, and the display string it carries (repr) is
\* the quoted form of that content
C13_StringLiteralQuotedRepr ==
  StringLiteralBuilt =>
    /\ def # None
    /\ def[1].literal # None
    /\ def[1].literal[1].string = Some(BuiltFromStr.value)
    /\ def[1].repr = Quoted(BuiltFromStr.value)

\* what the node does carry: the unquoted content in both places, the
\* quotation marks being added when the node is rendered
C13_QuotedWhenRendered ==
  StringLiteralBuilt =>
    /\ def # None
    /\ def[1].literal # None
    /\ def[1].literal[1].string = Some(BuiltFromStr.value)
    /\ def[1].repr = BuiltFromStr.value
    /\ to_string(def[1]) = Some(Quoted(BuiltFromStr.value))

\* a type reference, an expression with type arguments or an import type
\* has been converted, or a new expression with an identifier callee has
\* been inferred
TypeArgsCase ==
  \/ Converted /\ Input.type.tag \in {"TsTypeRef", "TsImportType"}
  \/ src # None /\ Input.op = "convert_expr_with_type_args"
  \/ src # None /\ Input.op = "infer" /\ Input.expr.tag = "New"
       /\ Input.expr.callee.tag = "Ident"

\* the type-argument list the source supplied: None when it supplied none
SuppliedTypeArgs ==
  CASE Input.op = "convert_expr_with_type_args" ->
         Input.expr_with_type_args.type_args
    [] Input.op = "infer" -> Input.expr.type_args
    [] Input.op = "convert" /\ Input.type.tag = "TsTypeRef" -> Input.type.type_params
    [] OTHER -> Input.type.type_args

\* the type_params of the result
ResultTypeParams ==
  IF Input.op = "convert" /\ Input.type.tag = "TsImportType"
  THEN def[1].import_type[1].type_params
  ELSE def[1].type_ref[1].type_params

\* C14: for a type reference, an expression with type arguments, an import
\* type and a new expression with an identifier callee, type_params is
\* absent exactly when no type-argument list was supplied; a supplied list
\* of n >= 0 arguments gives a present list of the n converted arguments in
\* the order of the source
C14_TypeArgsAbsentOrEmpty ==
  TypeArgsCase =>
    /\ pc # "aborted"
    /\ def # None
    /\ (ResultTypeParams = None) <=> (SuppliedTypeArgs = None)
    /\ SuppliedTypeArgs # None =>
         /\ Len(ResultTypeParams[1]) = Len(SuppliedTypeArgs[1].params)
         /\ \A i \in 1..Len(SuppliedTypeArgs[1].params) :
              Some(ResultTypeParams[1][i]) = From_TsType(SuppliedTypeArgs[1].params[i])

\* an expression with an empty list of type arguments has been converted
\* to a reference with a present, empty type_params
C14_Witness ==
  /\ src # None
  /\ Input.op = "convert_expr_with_type_args"
  /\ SuppliedTypeArgs # None
  /\ SuppliedTypeArgs[1].params = <<>>
  /\ pc = "done"
  /\ def[1].type_ref[1].type_params = Some(<<>>)

\* a reference without type arguments and one with two, B before A
C14_WitnessAbsent ==
  /\ Converted /\ Input.type.tag = "TsTypeRef" /\ SuppliedTypeArgs = None
  /\ pc = "done" /\ def[1].type_ref[1].type_params = None

C14_WitnessOrdered ==
  /\ src # None /\ Input.op = "infer" /\ Input.expr.tag = "New"
  /\ pc = "done" /\ def # None
  /\ def[1].type_ref[1].type_params # None
  /\ Len(def[1].type_ref[1].type_params[1]) = 2
  /\ def[1].type_ref[1].type_params[1][1].repr = "B"
  /\ def[1].type_ref[1].type_params[1][2].repr = "A"

\* a union, an intersection or a tuple has been converted
MemberListCase ==
  Converted /\ Input.type.tag \in {"TsUnionOrIntersectionType", "TsTupleType"}

\* the members of the source, in its order
SourceMembers ==
  IF Input.type.tag = "TsTupleType"
  THEN [i \in 1..Len(Input.type.elem_types) |-> Input.type.elem_types[i].ty]
  ELSE Input.type.types

\* the member list of the node, None when the payload of its kind is absent
ResultMembers ==
  CASE Input.type.tag = "TsTupleType" -> def[1].tuple
    [] Input.type.variant = "TsUnionType" -> def[1].union
    [] OTHER -> def[1].intersection

\* C15: a union, an intersection or a tuple of n members converts to a node
\* whose member list has n entries, the i-th the conversion of the i-th
\* member of the source; repeated members are kept, and the rest and
\* optional elements of a tuple stand at their position as Rest and
\* Optional nodes
C15_MembersInOrder ==
  MemberListCase =>
    /\ pc # "aborted"
    /\ def # None
    /\ ResultMembers # None
    /\ Len(ResultMembers[1]) = Len(SourceMembers)
    /\ \A i \in 1..Len(SourceMembers) :
         /\ Some(ResultMembers[1][i]) = From_TsType(SourceMembers[i])
         /\ SourceMembers[i].tag = "TsRestType" =>
              /\ ResultMembers[1][i].kind = Some("Rest")
              /\ ResultMembers[1][i].rest # None
         /\ SourceMembers[i].tag = "TsOptionalType" =>
              /\ ResultMembers[1][i].kind = Some("Optional")
              /\ ResultMembers[1][i].optional # None

\* the union A | A has been converted to a union of two equal members
C15_Witness ==
  /\ MemberListCase
  /\ Input.type.tag = "TsUnionOrIntersectionType"
  /\ Input.type.variant = "TsUnionType"
  /\ pc = "done"
  /\ def[1].union # None
  /\ Len(def[1].union[1]) = 2
  /\ def[1].union[1][1] = def[1].union[1][2]
  /\ def[1].union[1][1].repr = "A"

\* a tuple with an optional element before a rest element has been converted
C15_WitnessTuple ==
  /\ MemberListCase
  /\ Input.type.tag = "TsTupleType"
  /\ pc = "done"
  /\ def[1].tuple # None
  /\ Len(def[1].tuple[1]) = 2
  /\ def[1].tuple[1][1].kind = Some("Optional")
  /\ def[1].tuple[1][2].kind = Some("Rest")

\* the node on hand has been serialized
Saved == pc \in {"serialized", "loaded", "load_failed"} /\ def # None /\ json # None

RECURSIVE NodesIn(_)
\* the node and the nodes it holds, at every depth
NodesIn(node) ==
  {node} \cup UNION { NodesIn(Children(node)[i]) : i \in 1..Len(Children(node)) }

\* the JSON object of a node names its kind
EmitsKind(node) ==
  LET value == to_value(node)
  IN  /\ value.j = "obj"
      /\ "kind" \in DOMAIN value.v
      /\ value.v["kind"].j = "str"

\* C16: the serialized form of a Keyword node that conversion or inference
\* produced has exactly the members repr, kind and keyword, none of them
\* the payload of another kind; and the serialized form of every node, at
\* every depth, has the member kind
C16_KeywordSerialization ==
  Saved =>
    /\ json[1].j = "obj"
    /\ "kind" \in DOMAIN json[1].v
    /\ \A node \in NodesIn(def[1]) : EmitsKind(node)
    /\ def[1].kind = Some("Keyword") =>
         /\ DOMAIN json[1].v = {"repr", "kind", "keyword"}
         /\ json[1].v["repr"] = [j |-> "str", v |-> def[1].repr]
         /\ json[1].v["kind"] = [j |-> "str", v |-> "keyword"]
         /\ json[1].v["keyword"] = [j |-> "str", v |-> def[1].keyword[1]]

\* the keyword node number, inferred from a numeric literal, has been
\* serialized
C16_Witness ==
  /\ Saved
  /\ Inferred
  /\ def[1].kind = Some("Keyword")
  /\ json[1].v["keyword"] = [j |-> "str", v |-> "number"]

\* a converted keyword node has been serialized
C16_WitnessConverted ==
  Saved /\ Converted /\ def[1].kind = Some("Keyword") /\ def[1].keyword = Some("never")

\* an arrow function or a function expression has been inferred
FunctionCase == src # None /\ Input.op = "infer" /\ Input.expr.tag \in {"Arrow", "Fn"}

\* the part of the expression that holds the annotation and the body
FunctionOf(expr) == IF expr.tag = "Arrow" THEN expr ELSE expr.function

\* the expression with another body
WithBody(expr, body) ==
  IF expr.tag = "Arrow" THEN [expr EXCEPT !.body = body]
  ELSE [expr EXCEPT !.function.body = body]

\* the bodies a function is given
Bodies == {"{}", "{ return 1; }"}

\* C17: for an arrow function or a function expression, with either value
\* of the const-like flag, inference gives a FnOrConstructor node that is
\* not a constructor, whose return type is the conversion of the return
\* annotation when there is one and the keyword unknown when there is none;
\* the body of the function has no influence on the result
C17_FunctionInference ==
  FunctionCase =>
    /\ pc # "aborted"
    /\ def # None
    /\ def[1].kind = Some("FnOrConstructor")
    /\ def[1].fn_or_constructor # None
    /\ def[1].fn_or_constructor[1].constructor = FALSE
    /\ FunctionOf(Input.expr).return_type = None =>
         def[1].fn_or_constructor[1].ts_type = keyword("unknown")
    /\ FunctionOf(Input.expr).return_type # None =>
         Some(def[1].fn_or_constructor[1].ts_type)
           = ts_type_ann_to_def(FunctionOf(Input.expr).return_type[1])
    /\ \A body \in Bodies, c \in BOOLEAN :
         infer_ts_type_from_expr(WithBody(Input.expr, body), c) = Some(def)

\* an arrow function that returns 1 and has no annotation has been inferred
\* to return unknown
C17_Witness ==
  /\ FunctionCase
  /\ Input.expr.tag = "Arrow"
  /\ Input.expr.body = "{ return 1; }"
  /\ Input.expr.return_type = None
  /\ pc = "done"
  /\ def[1].fn_or_constructor[1].ts_type.keyword = Some("unknown")

\* a function expression annotated to return "a" has been inferred, with
\* the const-like flag true
C17_WitnessAnnotated ==
  /\ FunctionCase
  /\ Input.expr.tag = "Fn"
  /\ is_const
  /\ pc = "done"
  /\ def[1].fn_or_constructor[1].ts_type.kind = Some("Literal")

\* a template literal has been inferred, as the initializer itself or
\* under a const assertion
TemplateCase ==
  /\ src # None
  /\ Input.op = "infer"
  /\ \/ Input.expr.tag = "Tpl"
     \/ Input.expr.tag = "TsConstAssertion" /\ Input.expr.expr.tag = "Tpl"

\* the template literal inferred
InferredTpl == IF Input.expr.tag = "Tpl" THEN Input.expr ELSE Input.expr.expr

\* the const-like flag the template literal was inferred under: a const
\* assertion sets it
TplFlag == is_const \/ Input.expr.tag = "TsConstAssertion"

\* the template has one literal segment and no interpolation
SingleSegment(tpl) == Len(tpl.quasis) = 1 /\ tpl.exprs = <<>>

\* the template-literal node of one segment
MergedTemplate(node, raw) ==
  /\ node.kind = Some("Literal")
  /\ node.repr = raw
  /\ node.literal # None
  /\ node.literal[1].kind = "Template"
  /\ node.literal[1].ts_types = Some(<<StringNode(raw)>>)
  /\ to_string(node) = Some(Backtick \o raw \o Backtick)

\* C18: inference from a template literal gives the merged template-literal
\* node exactly when the const-like flag is true and the template has one
\* literal segment and no interpolation; in every other case it gives the
\* keyword string; it never gives absent
C18_TemplateInference ==
  TemplateCase =>
    /\ pc # "aborted"
    /\ def # None
    /\ (TplFlag /\ SingleSegment(InferredTpl)) =>
         MergedTemplate(def[1], InferredTpl.quasis[1].raw)
    /\ ~(TplFlag /\ SingleSegment(InferredTpl)) => def[1] = keyword("string")

\* the template `a` has been inferred with the const-like flag true
C18_Witness ==
  /\ TemplateCase
  /\ Input.expr.tag = "Tpl"
  /\ is_const
  /\ pc = "done"
  /\ MergedTemplate(def[1], "a")

\* a template with an interpolation has been inferred with the flag true,
\* and the template `a` with the flag false
C18_WitnessInterpolated ==
  /\ TemplateCase /\ is_const /\ Len(InferredTpl.quasis) = 2
  /\ pc = "done" /\ def[1] = keyword("string")

C18_WitnessWidened ==
  /\ TemplateCase /\ ~TplFlag /\ SingleSegment(InferredTpl)
  /\ pc = "done" /\ def[1] = keyword("string")

\* a call has been inferred, as an initializer expression or as the
\* initializer of a declarator
CallCase ==
  /\ src # None
  /\ \/ Input.op = "infer" /\ Input.expr.tag = "Call"
     \/ Input.op = "infer_decl" /\ Input.decl.init # None
          /\ Input.decl.init[1].tag = "Call"

\* the call inferred
InferredCall == IF Input.op = "infer" THEN Input.expr ELSE Input.decl.init[1]

\* the callee of the call is a plain identifier
IdentCallee(call) == call.callee.tag = "Expr" /\ call.callee.expr.tag = "Ident"

\* the keyword the lookup gives for a callee, "" when it gives none
KeywordOfCallee(sym) ==
  CASE sym = "Symbol" -> "symbol"
    [] sym = "Number" -> "number"
    [] sym = "String" -> "string"
    [] sym = "BigInt" -> "bigint"
    [] sym = "Date" -> "string"
    [] OTHER -> ""

\* C19: inference from a call looks the callee identifier up: Symbol,
\* Number, String and BigInt give the Keyword node of the name in lower
\* case, Date the Keyword node string, RegExp a reference to RegExp without
\* type arguments; any other identifier, and a callee that is not a plain
\* identifier, give absent.  Neither the arguments of the call nor the
\* const-like flag change the result
C19_CallLookup ==
  CallCase =>
    /\ pc # "aborted"
    /\ IF IdentCallee(InferredCall)
       THEN LET sym == InferredCall.callee.expr.sym
            IN  CASE KeywordOfCallee(sym) # "" ->
                       /\ def # None
                       /\ def[1].kind = Some("Keyword")
                       /\ def[1].keyword = Some(KeywordOfCallee(sym))
                  [] sym = "RegExp" ->
                       /\ def # None
                       /\ def[1].kind = Some("TypeRef")
                       /\ def[1].type_ref
                            = Some([type_params |-> None, type_name |-> "RegExp"])
                  [] OTHER -> def = None
       ELSE def = None
    /\ \A args \in {<<>>, <<LitExpr([tag |-> "Num", value |-> 1])>>}, c \in BOOLEAN :
         infer_ts_type_from_expr([InferredCall EXCEPT !.args = args], c) = Some(def)

\* the call Date() has been inferred: string
C19_Witness ==
  /\ CallCase
  /\ IdentCallee(InferredCall)
  /\ InferredCall.callee.expr.sym = "Date"
  /\ pc = "done"
  /\ def # None
  /\ def[1].keyword = Some("string")

\* a call with an argument, a call of an unknown function and a call whose
\* callee is not an expression have been inferred
C19_WitnessArgs ==
  /\ CallCase /\ InferredCall.args # <<>> /\ is_const
  /\ pc = "done" /\ def # None /\ def[1].keyword = Some("number")

C19_WitnessUnknown ==
  /\ CallCase /\ IdentCallee(InferredCall) /\ InferredCall.callee.expr.sym = "f"
  /\ pc = "done" /\ def = None

C19_WitnessSuper ==
  CallCase /\ InferredCall.callee.tag = "Super" /\ pc = "done" /\ def = None

\* a template literal type has been converted
TplTypeCase ==
  /\ Converted
  /\ Input.type.tag = "TsLitType"
  /\ Input.type.lit.tag = "Tpl"

\* in the source, the i-th interpolated type lies strictly between the
\* quasi before it and the quasi after it
Interleaved(tpl) ==
  /\ Len(tpl.quasis) = Len(tpl.types) + 1
  /\ \A i \in 1..Len(tpl.types) :
       /\ tpl.quasis[i].span[2] < tpl.types[i].span[1]
       /\ tpl.types[i].span[2] < tpl.quasis[i + 1].span[1]

\* the node is the string segment of a quasi
QuasiSegment(node, quasi) ==
  /\ node.kind = Some("Literal")
  /\ node.literal # None
  /\ node.literal[1].kind = "String"
  /\ node.literal[1].string = Some(quasi.raw)

\* the segments are quasi_0, type_0, quasi_1, ..., type_(n-1), quasi_n
Alternating(segments, tpl) ==
  /\ Len(segments) = 2 * Len(tpl.types) + 1
  /\ \A i \in 1..Len(tpl.quasis) : QuasiSegment(segments[2 * i - 1], tpl.quasis[i])
  /\ \A i \in 1..Len(tpl.types) : Some(segments[2 * i]) = From_TsType(tpl.types[i])

\* the key of the interpolated type is the span of a child node
KeyFromChild(ts_type) ==
  ts_type.tag \in {"TsArrayType", "TsConditionalType", "TsIndexedAccessType"}

\* C20: the segments of a converted template literal type whose i-th
\* interpolated type lies between quasi i and quasi i+1 are quasi_0, type_0,
\* quasi_1, ..., type_(n-1), quasi_n, for every form of interpolated type,
\* those whose key is the span of a child node included
C20_SegmentOrder ==
  (TplTypeCase /\ Interleaved(Input.type.lit)) =>
    /\ pc # "aborted"
    /\ def # None
    /\ def[1].kind = Some("Literal")
    /\ def[1].literal # None
    /\ def[1].literal[1].kind = "Template"
    /\ def[1].literal[1].ts_types # None
    /\ Alternating(def[1].literal[1].ts_types[1], Input.type.lit)

\* a template with two interpolated types, an indexed-access type and an
\* array type, has been converted to five segments
C20_Witness ==
  /\ TplTypeCase
  /\ Interleaved(Input.type.lit)
  /\ Len(Input.type.lit.types) = 2
  /\ Input.type.lit.types[1].tag = "TsIndexedAccessType"
  /\ Input.type.lit.types[2].tag = "TsArrayType"
  /\ def # None
  /\ Len(def[1].literal[1].ts_types[1]) = 5

\* a conditional type between two empty quasis has been converted, and its
\* key is not its own span
C20_WitnessConditional ==
  /\ TplTypeCase
  /\ Len(Input.type.lit.types) = 1
  /\ Input.type.lit.types[1].tag = "TsConditionalType"
  /\ KeyFromChild(Input.type.lit.types[1])
  /\ get_span_from_type(Input.type.lit.types[1]) # Input.type.lit.types[1].span
  /\ Input.type.lit.quasis[1].raw = "" /\ Input.type.lit.quasis[2].raw = ""
  /\ pc = "done"

\* every template converted is interleaved
C20_AlwaysInterleaved == TplTypeCase => Interleaved(Input.type.lit)

\* infer_ts_type_from_expr has run on an array literal, or on the const
\* assertion of one
ArrayCase ==
  /\ src # None
  /\ Input.op = "infer"
  /\ \/ Input.expr.tag = "Array"
     \/ Input.expr.tag = "TsConstAssertion" /\ Input.expr.expr.tag = "Array"

\* the array literal inferred
InferredArr == IF Input.expr.tag = "Array" THEN Input.expr ELSE Input.expr.expr

\* the flag infer_ts_type_from_arr_lit got: the Expr::Array arm passes
\* false, the const assertion true
ArrFlag == Input.expr.tag = "TsConstAssertion"

\* the element is a spread, or inference returns absent for it
Offending(elem, c) ==
  /\ elem # None
  /\ \/ elem[1].spread # None
     \/ infer_ts_type_from_expr(elem[1].expr, c) = Some(None)

HasOffending(arr, c) == \E i \in 1..Len(arr.elems) : Offending(arr.elems[i], c)

\* the elements that are not holes
NotHole(elem) == elem # None

WithoutHoles(arr) == [arr EXCEPT !.elems = SelectSeq(arr.elems, NotHole)]

\* the node is an array of the keyword any
IsAnyArray(node) ==
  /\ node.kind = Some("Array")
  /\ node.array = Some(keyword("any"))

\* C21: an array literal with a spread element, or with an element for
\* which inference returns absent, is inferred as the Array node of the
\* keyword any, whatever its other elements and wherever that element is;
\* holes are skipped: without such an element the result is that of the
\* array literal without its holes, and is not the array of any
C21_AnyArrayCollapse ==
  ArrayCase =>
    /\ pc # "aborted"
    /\ HasOffending(InferredArr, ArrFlag) => (def # None /\ IsAnyArray(def[1]))
    /\ ~HasOffending(InferredArr, ArrFlag) =>
         /\ Some(def) = infer_ts_type_from_arr_lit(WithoutHoles(InferredArr), ArrFlag)
         /\ def # None => ~IsAnyArray(def[1])

\* ["a", 1, ...v] has been inferred: the spread is the last element
C21_Witness ==
  /\ ArrayCase
  /\ Len(InferredArr.elems) = 3
  /\ InferredArr.elems[1] # None /\ InferredArr.elems[1][1].spread = None
  /\ ~Offending(InferredArr.elems[1], ArrFlag)
  /\ ~Offending(InferredArr.elems[2], ArrFlag)
  /\ InferredArr.elems[3] # None /\ InferredArr.elems[3][1].spread # None
  /\ def # None
  /\ IsAnyArray(def[1])

\* ["a", f()] has been inferred: f() is not inferable
C21_WitnessAbsent ==
  /\ ArrayCase
  /\ Len(InferredArr.elems) = 2
  /\ ~Offending(InferredArr.elems[1], ArrFlag)
  /\ InferredArr.elems[2] # None /\ InferredArr.elems[2][1].spread = None
  /\ InferredArr.elems[2][1].expr.tag = "Call"
  /\ def # None
  /\ IsAnyArray(def[1])

\* [, "a"] has been inferred: the hole does not collapse the array
C21_WitnessHole ==
  /\ ArrayCase
  /\ Len(InferredArr.elems) = 2
  /\ InferredArr.elems[1] = None
  /\ InferredArr.elems[2] # None
  /\ def # None
  /\ def[1].kind = Some("Array")
  /\ def[1].array[1].keyword = Some("string")

\* the types inferred for the elements of an array literal without an
\* offending element, holes passed over, in the order of the elements
InferredElems(arr, c) ==
  [i \in 1..Len(WithoutHoles(arr).elems) |->
     infer_ts_type_from_expr(WithoutHoles(arr).elems[i][1].expr, c)[1][1]]

RECURSIVE FirstSeen(_)
\* the sequence without the entries equal to an earlier one
FirstSeen(types) ==
  IF types = <<>> THEN <<>>
  ELSE LET last == types[Len(types)]
           front == SubSeq(types, 1, Len(types) - 1)
       IN  IF \E i \in 1..Len(front) : front[i] = last
           THEN FirstSeen(front)
           ELSE Append(FirstSeen(front), last)

\* the inferred type is what the distinct-type rule gives for the distinct
\* types D
DistinctRule(maybe_node, D) ==
  CASE Len(D) = 0 -> maybe_node = None
    [] Len(D) = 1 ->
         /\ maybe_node # None
         /\ maybe_node[1].kind = Some("Array")
         /\ maybe_node[1].array = Some(D[1])
    [] OTHER ->
         /\ maybe_node # None
         /\ maybe_node[1].kind = Some("Array")
         /\ maybe_node[1].array # None
         /\ maybe_node[1].array[1].kind = Some("Union")
         /\ maybe_node[1].array[1].union = Some(D)

\* C22: for an array literal with no spread and no element that is not
\* inferable, with D the inferred element types without structurally equal
\* duplicates, in order of first occurrence, array inference returns absent
\* when D is empty, the array of D[0] when D has one entry, and the array
\* of the union of D, its members in the order of D, when D has more
C22_DistinctTypeRule ==
  (ArrayCase /\ ~HasOffending(InferredArr, ArrFlag)) =>
    /\ pc # "aborted"
    /\ DistinctRule(def, FirstSeen(InferredElems(InferredArr, ArrFlag)))

\* [1, "a", 1] has been inferred: the array of the union of number and
\* string, in that order
C22_Witness ==
  /\ ArrayCase
  /\ ~HasOffending(InferredArr, ArrFlag)
  /\ Len(InferredElems(InferredArr, ArrFlag)) = 3
  /\ Len(FirstSeen(InferredElems(InferredArr, ArrFlag))) = 2
  /\ def # None
  /\ def[1].array[1].kind = Some("Union")
  /\ def[1].array[1].union[1][1].keyword = Some("number")
  /\ def[1].array[1].union[1][2].keyword = Some("string")

\* an array literal of holes only has been inferred: absent
C22_WitnessEmpty ==
  /\ ArrayCase
  /\ InferredArr.elems # <<>>
  /\ InferredElems(InferredArr, ArrFlag) = <<>>
  /\ ~HasOffending(InferredArr, ArrFlag)
  /\ pc = "done"
  /\ def = None

\* ["a", "a"] has been inferred: the array of one type
C22_WitnessOne ==
  /\ ArrayCase
  /\ ~HasOffending(InferredArr, ArrFlag)
  /\ Len(InferredElems(InferredArr, ArrFlag)) = 2
  /\ Len(FirstSeen(InferredElems(InferredArr, ArrFlag))) = 1
  /\ def # None
  /\ def[1].array[1].kind # Some("Union")

\* three distinct types have been inferred under a const assertion
C22_WitnessThree ==
  /\ ArrayCase
  /\ ArrFlag
  /\ ~HasOffending(InferredArr, ArrFlag)
  /\ Len(FirstSeen(InferredElems(InferredArr, ArrFlag))) = 3
  /\ def # None
  /\ Len(def[1].array[1].union[1]) = 3

\* the kinds that name something and hold no list of member types: the
\* keywords, literals and references of the specification, and the kinds
\* the conversions build with the text of a name or of a predicate
LeafLikeKinds == {"Keyword", "Literal", "TypeRef", "TypeQuery", "This", "TypePredicate"}

\* the kinds rendered from child nodes
CompositeKinds == TsTypeDefKinds \ LeafLikeKinds

\* a node of a composite kind has an empty cached display string
EmptyReprIfComposite(node) ==
  (node.kind # None /\ node.kind[1] \in CompositeKinds) => node.repr = ""

\* C23: every node of a composite kind that conversion or inference
\* produces, at any depth of the result, carries an empty cached display
\* string; a display string that is not empty appears only on leaf-like
\* kinds
C23_ReprOnlyOnLeaves ==
  (src # None /\ def # None) =>
    \A node \in NodesIn(def[1]) : EmptyReprIfComposite(node)

\* the only composite node with a display string is the any[] of the early
\* returns of infer_ts_type_from_arr_lit
C23_ReprButAnyArray ==
  (src # None /\ def # None) =>
    \A node \in NodesIn(def[1]) : EmptyReprIfComposite(node) \/ node = AnyArray

\* an array type has been converted, and an array literal inferred, to an
\* Array node without a display string
C23_ConvertedArrayEmpty ==
  /\ Converted /\ Input.type.tag = "TsArrayType"
  /\ def # None /\ def[1].kind = Some("Array") /\ def[1].repr = ""

C23_InferredArrayEmpty ==
  /\ ArrayCase /\ def # None /\ def[1].kind = Some("Array") /\ def[1].repr = ""

\* ["a", f()] has been inferred to an Array node with the display string
\* any[]
C23_InferredAnyArray ==
  /\ ArrayCase /\ def # None /\ def[1].kind = Some("Array") /\ def[1].repr = "any[]"

\* ts_type_ann_to_def has run on a type annotation
AnnCase == src # None /\ Input.op = "convert_ann"

\* the syntactic tags of the types, the two variants of a function or
\* constructor type and of a union or intersection type under one tag each
SyntacticTags ==
  { "TsKeywordType", "TsThisType", "TsFnOrConstructorType", "TsTypeRef",
    "TsTypeQuery", "TsTypeLit", "TsArrayType", "TsTupleType", "TsOptionalType",
    "TsRestType", "TsUnionOrIntersectionType", "TsConditionalType",
    "TsInferType", "TsParenthesizedType", "TsTypeOperator",
    "TsIndexedAccessType", "TsMappedType", "TsLitType", "TsTypePredicate",
    "TsImportType" }

\* C24: the node ts_type_ann_to_def returns for a type annotation is
\* structurally equal to the node From<&TsType> returns for the type the
\* annotation wraps, for each of the 20 syntactic tags; the one aborts
\* where the other does
C24_DispatchersAgree ==
  AnnCase =>
    /\ Input.type.tag \in SyntacticTags
    /\ def = From_TsType(Input.type)

\* the annotation of a parenthesized type has been converted, and the
\* annotations converted cover the 20 tags
C24_Witness ==
  /\ AnnCase
  /\ Input.type.tag = "TsParenthesizedType"
  /\ def # None
  /\ def[1].kind = Some("Parenthesized")
  /\ Cardinality(SyntacticTags) = 20
  /\ {t.tag : t \in AnnTypes} = SyntacticTags

\* the annotation of a type predicate, whose own annotation goes through
\* ts_type_ann_to_def again, has been converted
C24_WitnessPredicate ==
  /\ AnnCase
  /\ Input.type.tag = "TsTypePredicate"
  /\ Input.type.type_ann # None
  /\ def # None
  /\ def[1].kind = Some("TypePredicate")

\* an array literal has been inferred to an array of a function type, and
\* the array rendered
FnArrayCase ==
  /\ ArrayCase
  /\ pc = "rendered"
  /\ def # None
  /\ def[1].kind = Some("Array")
  /\ def[1].array # None
  /\ def[1].array[1].kind = Some("FnOrConstructor")

\* the function type with the parameters of fn whose return type is the
\* array of the return type of fn
ReturningArray(fn) ==
  [fn EXCEPT !.fn_or_constructor =
     Some([fn.fn_or_constructor[1] EXCEPT !.ts_type = ArrayOf(@)])]

\* C25: the rendered text of an Array node whose element is a function
\* type with return type R, as inferred for an array literal of functions,
\* differs from the rendered text of the function type with the same
\* parameters whose return type is the array of R
C25_FnArrayUnambiguous ==
  FnArrayCase => text # to_string(ReturningArray(def[1].array[1]))

\* [() => {}] has been inferred and rendered as () => unknown[], the text
\* of a function that returns unknown[]
C25_Ambiguous ==
  /\ FnArrayCase
  /\ text = Some("() => unknown[]")
  /\ text = to_string(ReturningArray(def[1].array[1]))

\* an array of a union is rendered with the union in parentheses, which the
\* array of a function type is not
C25_UnionParenthesized ==
  (RenderedArray /\ def[1].array[1].kind = Some("Union")) =>
    /\ to_string(def[1].array[1]) # None
    /\ text = Some("(" \o to_string(def[1].array[1])[1] \o ")[]")

\* a template-literal node built by tpl_literal, from a template literal
\* type or from a template literal inferred under the const-like flag, has
\* been rendered
TplRendered ==
  /\ src # None
  /\ Input.op \in {"convert", "infer"}
  /\ pc = "rendered"
  /\ def # None
  /\ def[1].kind = Some("Literal")
  /\ def[1].literal # None
  /\ def[1].literal[1].kind = "Template"

\* an interpolated type of the template is a string-literal type
InterpolatesStr ==
  /\ Input.op = "convert"
  /\ \E i \in 1..Len(Input.type.lit.types) :
       /\ Input.type.lit.types[i].tag = "TsLitType"
       /\ Input.type.lit.types[i].lit.tag = "Str"

\* C26: with styling disabled, the rendered text of a template-literal
\* node built by tpl_literal is a backtick, the cached display string of
\* the node, and a backtick, for every kind of interpolated type
C26_ReprIsRenderedText ==
  TplRendered => text = Some(Backtick \o def[1].repr \o Backtick)

\* the two texts agree when no interpolated type is a string-literal type
C26_AgreeWithoutStr ==
  (TplRendered /\ ~InterpolatesStr) =>
    text = Some(Backtick \o def[1].repr \o Backtick)

\* the template with the one interpolated type "b" between two empty quasis
\* has been converted and rendered: the display string has the
\* interpolation, the text has the bare b
C26_StrInterpolation ==
  /\ TplRendered
  /\ InterpolatesStr
  /\ def[1].repr = "${\"b\"}"
  /\ text = Some(Backtick \o "b" \o Backtick)

\* a template with an array type interpolated has been rendered to its
\* display string between backticks
C26_ArrayInterpolation ==
  /\ TplRendered
  /\ Input.op = "convert"
  /\ Len(Input.type.lit.types) = 1
  /\ Input.type.lit.types[1].tag = "TsArrayType"
  /\ text = Some(Backtick \o def[1].repr \o Backtick)

\* array inference has returned an array of a union
UnionArrayCase ==
  /\ ArrayCase
  /\ def # None
  /\ def[1].kind = Some("Array")
  /\ def[1].array # None
  /\ def[1].array[1].kind = Some("Union")
  /\ def[1].array[1].union # None

\* the members of the union inferred
UnionMembers == def[1].array[1].union[1]

\* the texts of the nodes are pairwise different
PairwiseDistinctText(nodes) ==
  \A i, j \in 1..Len(nodes) : i # j => to_string(nodes[i]) # to_string(nodes[j])

\* an element of the array literal is a call
HasCallElement(arr) ==
  \E i \in 1..Len(arr.elems) :
    arr.elems[i] # None /\ arr.elems[i][1].expr.tag = "Call"

\* C27: whenever array-literal inference returns an array of a union, the
\* members of the union render to pairwise different text, for every mix
\* of inferable elements and either value of the const-like flag
C27_MembersRenderDistinct ==
  UnionArrayCase => PairwiseDistinctText(UnionMembers)

\* the members render to different text when no element is a call
C27_DistinctWithoutCalls ==
  (UnionArrayCase /\ ~HasCallElement(InferredArr)) =>
    PairwiseDistinctText(UnionMembers)

\* [1, Number()] has been inferred to the array of a union of two keyword
\* nodes number, of display strings number and Number, that render alike
C27_SameText ==
  /\ UnionArrayCase
  /\ ~ArrFlag
  /\ Len(UnionMembers) = 2
  /\ UnionMembers[1] = keyword_with_repr("number", "number")
  /\ UnionMembers[2] = keyword_with_repr("number", "Number")
  /\ to_string(UnionMembers[1]) = to_string(UnionMembers[2])

\* ["a", Date()] has been inferred under a const assertion to a union
\* whose members render to different text
C27_DifferentText ==
  /\ UnionArrayCase
  /\ ArrFlag
  /\ HasCallElement(InferredArr)
  /\ Len(UnionMembers) = 2
  /\ UnionMembers[2].repr = "Date"
  /\ PairwiseDistinctText(UnionMembers)

====
